---- MODULE Spec2Model ----
(***************************************************************************)
(* FixedOptimizedMapGenerator (professional_map_generator_optimized.py):   *)
(* attribute filter, CRS normalisation and its verification, colour        *)
(* assignment, scale selection and viewport computation.                   *)
(*                                                                         *)
(* Conventions of the model                                                *)
(*  - A shapefile is a table of features.  A feature carries its attribute *)
(*    values, a bounding box in UTM metres (x0,y0,x1,y1) and an area.      *)
(*  - Python values are records [t, n, s]: t is the Python type, n the     *)
(*    number (ints as such, floats in tenths), s the text of a string.     *)
(*  - Floating point arithmetic is modelled by exact rational arithmetic   *)
(*    on integers (cross-multiplied comparisons, explicit denominators).   *)
(*  - console is what the last call printed (tags of the print statements  *)
(*    that matter), ret_* what the last call returned.                     *)
(***************************************************************************)
EXTENDS Integers, Sequences, FiniteSets, TLC

(***************************************************************************)
(* Bounds of the model                                                     *)
(***************************************************************************)
NumBlocks == 22      \* features (and distinct TAHUN values) of the large file
NumSubdiv == 17      \* distinct SUB_DIVISI values of the large file
MaxSel == 2          \* longest hand-picked selected_values list
MaxUpdates == 3      \* update_element_config calls on one generator
MaxGuiOps == 2       \* button presses and edits on one TIFF legend
MaxEvents == 5       \* mouse events on the preview canvas of one builder
MaxThreads == 2      \* map generations started in one window

(***************************************************************************)
(* Python values                                                           *)
(***************************************************************************)
IntV(i) == [t |-> "int", n |-> i, s |-> ""]
FloatV(tenths) == [t |-> "float", n |-> tenths, s |-> ""]
StrV(str) == [t |-> "str", n |-> 0, s |-> str]
NullV == [t |-> "null", n |-> 0, s |-> ""]

None == "None"

\* str(val)
PyStr(v) ==
    CASE v.t = "str" -> v.s
      [] v.t = "int" -> ToString(v.n)
      [] v.t = "float" -> ToString(v.n \div 10) \o "." \o ToString(v.n % 10)
      [] OTHER -> "nan"

\* the numbers whose text float() is asked to parse in this model
MaxNumber == NumBlocks + 1

\* float(text): [ok, tenths]; ok = FALSE stands for ValueError
IntTexts == [i \in 0..MaxNumber |-> ToString(i)]
FloatTexts == [k \in 0..(10 * MaxNumber + 9) |-> PyStr(FloatV(k))]

PyFloat(text) ==
    IF \E i \in DOMAIN IntTexts : IntTexts[i] = text
    THEN [ok |-> TRUE,
          tenths |-> 10 * (CHOOSE i \in DOMAIN IntTexts : IntTexts[i] = text)]
    ELSE IF \E k \in DOMAIN FloatTexts : FloatTexts[k] = text
    THEN [ok |-> TRUE,
          tenths |-> CHOOSE k \in DOMAIN FloatTexts : FloatTexts[k] = text]
    ELSE [ok |-> FALSE, tenths |-> 0]

\* int(x) of a float: truncation
PyInt(tenths) == tenths \div 10

(***************************************************************************)
(* The shapefiles the generator is run on                                  *)
(***************************************************************************)
Datasets == {"kebun", "besar", "titik"}

NumFeatures(d) ==
    CASE d = "kebun" -> 4
      [] d = "besar" -> NumBlocks
      [] d = "titik" -> 2

Columns(d) ==
    IF d = "titik" THEN {"BLOK", "TAHUN", "LUAS"}
    ELSE {"BLOK", "TAHUN", "LUAS", "SUB_DIVISI"}

\* pandas dtype of a column
Dtype(col) ==
    CASE col = "TAHUN" -> "int64"
      [] col = "LUAS" -> "float64"
      [] OTHER -> "object"

KebunRow(i) ==
    CASE i = 1 -> [BLOK |-> StrV("A"), TAHUN |-> IntV(1), LUAS |-> FloatV(15),
                   SUB_DIVISI |-> StrV("SD1"),
                   x0 |-> 1000, y0 |-> 2000, x1 |-> 1500, y1 |-> 2300, area |-> 15]
      [] i = 2 -> [BLOK |-> StrV("B"), TAHUN |-> IntV(2), LUAS |-> FloatV(20),
                   SUB_DIVISI |-> StrV("SD2"),
                   x0 |-> 1000, y0 |-> 2000, x1 |-> 2047, y1 |-> 2300, area |-> 8]
      [] i = 3 -> [BLOK |-> StrV("2"), TAHUN |-> IntV(2), LUAS |-> FloatV(15),
                   SUB_DIVISI |-> NullV,
                   x0 |-> 1200, y0 |-> 2050, x1 |-> 2046, y1 |-> 2100, area |-> 4]
      [] OTHER -> [BLOK |-> NullV, TAHUN |-> IntV(1), LUAS |-> FloatV(20),
                   SUB_DIVISI |-> StrV("SD1"),
                   x0 |-> 1100, y0 |-> 2100, x1 |-> 1100, y1 |-> 2100, area |-> 0]

BesarRow(i) ==
    [BLOK |-> IF i % 2 = 1 THEN StrV("A") ELSE StrV("B"),
     TAHUN |-> IntV(i), LUAS |-> FloatV(15),
     SUB_DIVISI |-> StrV("SD" \o ToString(((i - 1) % NumSubdiv) + 1)),
     x0 |-> 1000 * i, y0 |-> 500 * i,
     x1 |-> IF i = 3 THEN 1000 * i + 120000 ELSE IF i = 2 THEN 1000 * i ELSE 1000 * i + 200,
     y1 |-> IF i = 2 THEN 500 * i ELSE 500 * i + 200,
     area |-> IF i = 2 THEN 0 ELSE 2]

TitikRow(i) ==
    [BLOK |-> IF i = 1 THEN StrV("A") ELSE StrV("B"),
     TAHUN |-> IntV(i), LUAS |-> FloatV(15), SUB_DIVISI |-> NullV,
     x0 |-> 5000, y0 |-> 5000, x1 |-> 5000,
     y1 |-> IF i = 1 THEN 5000 ELSE 5400, area |-> 0]

FeatureTable ==
    [d \in Datasets |->
        [i \in 1..NumFeatures(d) |->
            CASE d = "kebun" -> KebunRow(i)
              [] d = "besar" -> BesarRow(i)
              [] d = "titik" -> TitikRow(i)]]

\* feature i of dataset d
Feature(d, i) == FeatureTable[d][i]


(***************************************************************************)
(* GeoDataFrame: [loaded, feats, crs]; feats are feature numbers in file   *)
(* order, crs is the CRS the geometries are expressed in.                  *)
(***************************************************************************)
UTM48S == "EPSG:32748"
WGS84 == "EPSG:4326"

NoGdf == [loaded |-> FALSE, feats |-> <<>>, crs |-> None]

\* gpd.read_file(self.shapefile_path)
ReadFile(d, fcrs) ==
    [loaded |-> TRUE, feats |-> [i \in 1..NumFeatures(d) |-> i], crs |-> fcrs]

\* if gdf.crs is None: gdf.set_crs('EPSG:4326', inplace=True)
SetCrsIfNone(g) == IF g.crs = None THEN [g EXCEPT !.crs = WGS84] ELSE g

\* gdf.to_crs(target): the same features, geometries expressed in target
ToCrs(g, target) == [g EXCEPT !.crs = target]

MetresPerDegree == 100 * 1000

\* a UTM coordinate expressed in crs; geographic coordinates are kept in
\* whole degrees
Coord(crs, metres) == IF crs = UTM48S THEN metres ELSE metres \div MetresPerDegree

SetMin(S) == CHOOSE x \in S : \A y \in S : x <= y
SetMax(S) == CHOOSE x \in S : \A y \in S : x >= y

Range(f) == {f[i] : i \in DOMAIN f}

\* gdf.total_bounds; nan = TRUE for an empty collection
TotalBounds(d, g) ==
    IF Len(g.feats) = 0
    THEN [nan |-> TRUE, x0 |-> 0, y0 |-> 0, x1 |-> 0, y1 |-> 0]
    ELSE [nan |-> FALSE,
          x0 |-> SetMin({Coord(g.crs, Feature(d, i).x0) : i \in Range(g.feats)}),
          y0 |-> SetMin({Coord(g.crs, Feature(d, i).y0) : i \in Range(g.feats)}),
          x1 |-> SetMax({Coord(g.crs, Feature(d, i).x1) : i \in Range(g.feats)}),
          y1 |-> SetMax({Coord(g.crs, Feature(d, i).y1) : i \in Range(g.feats)})]

\* gdf.geometry.area.sum()
RECURSIVE AreaSum(_, _)
AreaSum(d, feats) ==
    IF feats = <<>> THEN 0
    ELSE Feature(d, Head(feats)).area + AreaSum(d, Tail(feats))

\* gdf[col] as a sequence of values in row order
ColumnValues(d, g, col) == [k \in 1..Len(g.feats) |-> Feature(d, g.feats[k])[col]]

\* series.dropna().unique(): distinct non-null values in first-seen order
RECURSIVE UniqueFrom(_, _)
UniqueFrom(vals, seen) ==
    IF vals = <<>> THEN seen
    ELSE IF Head(vals).t = "null" \/ Head(vals) \in Range(seen)
         THEN UniqueFrom(Tail(vals), seen)
         ELSE UniqueFrom(Tail(vals), Append(seen, Head(vals)))

Unique(vals) == UniqueFrom(vals, <<>>)

\* gdf[mask]
RECURSIVE SelectRows(_, _, _, _)
SelectRows(d, feats, col, wanted) ==
    IF feats = <<>> THEN <<>>
    ELSE IF Feature(d, Head(feats))[col] \in wanted
         THEN <<Head(feats)>> \o SelectRows(d, Tail(feats), col, wanted)
         ELSE SelectRows(d, Tail(feats), col, wanted)

(***************************************************************************)
(* Colour assignment                                                       *)
(***************************************************************************)
base_colors ==
    <<"#E74C3C", "#3498DB", "#2ECC71", "#F39C12", "#9B59B6", "#1ABC9C",
      "#E67E22", "#34495E", "#F1C40F", "#E91E63", "#00BCD4", "#4CAF50",
      "#FF9800", "#795548", "#607D8B">>

enhanced_colors ==
    <<"#E74C3C", "#3498DB", "#2ECC71", "#F39C12", "#9B59B6", "#1ABC9C",
      "#E67E22", "#34495E", "#F1C40F", "#E91E63", "#00BCD4", "#4CAF50",
      "#FF9800", "#795548", "#607D8B", "#FF5722", "#673AB7", "#009688",
      "#8BC34A", "#FFEB3B">>

EmptyDict == [v \in {} |-> ""]

\* dict[key] = value
DictSet(dict, key, value) ==
    [v \in DOMAIN dict \cup {key} |-> IF v = key THEN value ELSE dict[v]]

\* color_index = i % len(palette), i counted from 0
ColorIndexWrong(i, n) == IF i < n THEN i ELSE n - 1
ColorIndex(i, n) == i % n

\* for i, value in enumerate(unique_values): colors[value] = palette[i % len(palette)]
RECURSIVE AssignColors(_, _, _, _)
AssignColors(unique_values, palette, i, colors) ==
    IF i >= Len(unique_values) THEN colors
    ELSE AssignColors(unique_values, palette, i + 1,
                      DictSet(colors, unique_values[i + 1],
                              palette[ColorIndex(i, Len(palette)) + 1]))


(***************************************************************************)
(* Attribute filter                                                        *)
(***************************************************************************)
\* one pass of the conversion loop of load_data_with_attribute_filter:
\*   'int' in dtype   -> int(float(str(val)))
\*   'float' in dtype -> float(str(val))
\*   otherwise        -> str(val)
\*   ValueError / TypeError -> the value as given
ConvertValue(dtype, val) ==
    LET parsed == PyFloat(PyStr(val))
    IN  CASE dtype = "int64" ->
               IF parsed.ok THEN IntV(PyInt(parsed.tenths)) ELSE val
          [] dtype = "float64" ->
               IF parsed.ok THEN FloatV(parsed.tenths) ELSE val
          [] OTHER -> StrV(PyStr(val))

\* converted_values, as the set isin() tests membership in
ConvertedValues(col, vals) == {ConvertValue(Dtype(col), vals[k]) : k \in DOMAIN vals}

\* the filter test: self.selected_attribute and self.selected_values
FilterActive(attr, vals) == attr # None /\ ~vals.none /\ vals.list # <<>>

NoValues == [none |-> TRUE, list |-> <<>>]
Values(list) == [none |-> FALSE, list |-> list]

(***************************************************************************)
(* _verify_reprojection                                                    *)
(***************************************************************************)
ToleranceMicroDeg == 1000
AreaTolerancePercent == 1
MicroPerDegree == 1000 * 1000

Abs(x) == IF x < 0 THEN -x ELSE x

\* np.max(np.abs(original_bounds - reprojected_bounds)) in microdegrees;
\* err is the round-trip error of the projection library
MaxBoundDiff(ob, rb, err) ==
    MicroPerDegree * SetMax({Abs(ob.x0 - rb.x0), Abs(ob.y0 - rb.y0),
                            Abs(ob.x1 - rb.x1), Abs(ob.y1 - rb.y1)}) + err

\* area_diff_percent < 1.0, where area_diff_percent =
\* abs(original_area - reprojected_area) / original_area * 100 and the
\* reprojected area is off by area_err per mille; a zero original area gives
\* nan or inf, which is not < 1.0
AreaWithinTolerance(original_area, filtered_area, area_err) ==
    /\ original_area > 0
    /\ 100 * Abs(1000 * original_area - (1000 + area_err) * filtered_area)
         < AreaTolerancePercent * 1000 * original_area

\* the value _verify_reprojection returns once the bounds are within
\* tolerance: the area check only prints, then "return True"
Verified(area_ok) == TRUE

\* [ret, console, bounds_ok, area_ok, exact]; exact: the projection library
\* made no error on this call (err = 0 and area_err = 0)
VerifyReprojection(d, original_gdf, gdf_wgs84, raises, err, area_err) ==
    LET ob == TotalBounds(d, ToCrs(original_gdf, WGS84))
        rb == TotalBounds(d, gdf_wgs84)
        nan == ob.nan \/ rb.nan
        max_diff == IF nan THEN 0 ELSE MaxBoundDiff(ob, rb, err)
        bounds_ok == ~nan /\ max_diff < ToleranceMicroDeg
        area_ok == AreaWithinTolerance(AreaSum(d, original_gdf.feats),
                                       AreaSum(d, gdf_wgs84.feats), area_err)
    IN  IF raises
        THEN [ret |-> FALSE, console |-> {"verify_error"},
              bounds_ok |-> FALSE, area_ok |-> FALSE, exact |-> FALSE]
        ELSE IF bounds_ok
        THEN [ret |-> Verified(area_ok),
              console |-> {"verify_bounds_passed"} \cup
                          (IF area_ok THEN {"verify_area_passed"}
                           ELSE {"verify_area_warning"}),
              bounds_ok |-> TRUE, area_ok |-> area_ok,
              exact |-> err = 0 /\ area_err = 0]
        ELSE [ret |-> FALSE, console |-> {"verify_failed"},
              bounds_ok |-> FALSE, area_ok |-> area_ok,
              exact |-> err = 0 /\ area_err = 0]

(***************************************************************************)
(* _calculate_optimal_scale_from_zoom                                      *)
(***************************************************************************)
professional_scales ==
    <<1000, 2000, 5000, 10000, 15000, 20000, 25000, 30000, 40000, 50000,
      75000, 100000, 150000, 200000, 250000, 500000>>

PaperWidthCm == 22
PaperHeightCm == 18
SafetyBufferTenths == 13
DefaultScale == 25000

\* what the early return and the except branch return
FallbackScaleWrong == DefaultScale + 345
FallbackScale == DefaultScale

\* required_scale = max(scale_for_width, scale_for_height), as a numerator
\* over the denominator PaperWidthCm * PaperHeightCm:
\*   scale_for_width  = (w * 1.3) / (22 / 100)
\*   scale_for_height = (h * 1.3) / (18 / 100)
RequiredScaleNumWidthOnly(w, h) == w * SafetyBufferTenths * 10 * PaperHeightCm
RequiredScaleNum(w, h) ==
    LET for_width == w * SafetyBufferTenths * 10 * PaperHeightCm
        for_height == h * SafetyBufferTenths * 10 * PaperWidthCm
    IN  IF for_width >= for_height THEN for_width ELSE for_height

RequiredScaleDen == PaperWidthCm * PaperHeightCm

\* scale >= required_scale
ScaleFitsNoBuffer(scale, w, h) ==
    scale * PaperWidthCm >= 100 * w /\ scale * PaperHeightCm >= 100 * h
ScaleFits(scale, w, h) == scale * RequiredScaleDen >= RequiredScaleNum(w, h)

\* for scale in professional_scales: if scale >= required_scale: break
\* 0 stands for optimal_scale = None
RECURSIVE FirstFit(_, _, _)
FirstFit(k, w, h) ==
    IF k > Len(professional_scales) THEN 0
    ELSE IF ScaleFits(professional_scales[k], w, h) THEN professional_scales[k]
         ELSE FirstFit(k + 1, w, h)

\* if optimal_scale is None: optimal_scale = professional_scales[-1]
ClampWrong(optimal) == IF optimal = 0 THEN professional_scales[1] ELSE optimal
Clamp(optimal) ==
    IF optimal = 0 THEN professional_scales[Len(professional_scales)] ELSE optimal

\* [ret, console]; raises stands for an exception inside the try block
CalculateOptimalScale(d, g, raises) ==
    IF ~g.loaded \/ Len(g.feats) = 0
    THEN [ret |-> FallbackScale, console |-> {}]
    ELSE IF raises
    THEN [ret |-> FallbackScale, console |-> {"scale_error"}]
    ELSE LET b == TotalBounds(d, g)
             optimal == FirstFit(1, b.x1 - b.x0, b.y1 - b.y0)
         IN  [ret |-> Clamp(optimal),
              console |-> IF optimal = 0 THEN {"scale_clamped_warning"} ELSE {}]


(***************************************************************************)
(* _calculate_zoom_bounds_for_optimal_scale                                *)
(***************************************************************************)
MinBufferTenths == 12

\* the returned x coordinates are numerators over XDen, the y coordinates
\* numerators over YDen
XDen == 2 * 100 * PaperHeightCm
YDen == 2 * 100 * PaperWidthCm

Min2(a, b) == IF b < a THEN b ELSE a
Max2(a, b) == IF b > a THEN b ELSE a

NoBounds == [kind |-> "none", min_x |-> 0, min_y |-> 0, max_x |-> 0, max_y |-> 0]
NanBounds == [kind |-> "nan", min_x |-> 0, min_y |-> 0, max_x |-> 0, max_y |-> 0]

\* final_width = max(required_map_width_meters, study_width * 1.2), in 1/100
FinalSizeWrong(at_scale, study) == at_scale
FinalSizeStudyOnly(at_scale, study) == MinBufferTenths * 10 * study
FinalSize(at_scale, study) == Max2(at_scale, MinBufferTenths * 10 * study)

\* half_width and half_height after the aspect adjustment, half_width as a
\* numerator over XDen and half_height as a numerator over YDen:
\*   if final_width / final_height > aspect_ratio:
\*       final_height = final_width / aspect_ratio
\*   else:
\*       final_width = final_height * aspect_ratio
\*   half_width = final_width / 2; half_height = final_height / 2
HalfExtentShrink(final_width, final_height) ==
    IF PaperHeightCm * final_width > PaperWidthCm * final_height
    THEN [half_width |-> PaperWidthCm * final_height,
          half_height |-> PaperWidthCm * final_height]
    ELSE [half_width |-> PaperHeightCm * final_width,
          half_height |-> PaperHeightCm * final_width]
HalfExtent(final_width, final_height) ==
    IF PaperHeightCm * final_width > PaperWidthCm * final_height
    THEN \* final_height = final_width * 18 / 22, times 22 for the numerator
         [half_width |-> PaperHeightCm * final_width,
          half_height |-> PaperHeightCm * final_width]
    ELSE \* final_width = final_height * 22 / 18, times 18 for the numerator
         [half_width |-> PaperWidthCm * final_height,
          half_height |-> PaperWidthCm * final_height]

ZoomBounds(d, g, target_scale) ==
    IF ~g.loaded THEN NoBounds
    ELSE LET b == TotalBounds(d, g)
             final_width == FinalSize(PaperWidthCm * target_scale, b.x1 - b.x0)
             final_height == FinalSize(PaperHeightCm * target_scale, b.y1 - b.y0)
             half == HalfExtent(final_width, final_height)
         IN  IF b.nan THEN NanBounds
             ELSE IF final_height = 0
             THEN \* final_width / final_height: ZeroDivisionError, except: return None
                  NoBounds
             ELSE [kind |-> "box",
                   min_x |-> (b.x0 + b.x1) * (XDen \div 2) - half.half_width,
                   min_y |-> (b.y0 + b.y1) * (YDen \div 2) - half.half_height,
                   max_x |-> (b.x0 + b.x1) * (XDen \div 2) + half.half_width,
                   max_y |-> (b.y0 + b.y1) * (YDen \div 2) + half.half_height]


(***************************************************************************)
(* The generator object                                                    *)
(***************************************************************************)
VARIABLES
    dataset,                \* the shapefile behind self.shapefile_path
    file_crs,               \* the CRS recorded in that file (None if absent)
    selected_subdivisions,  \* self.selected_subdivisions
    selected_attribute,     \* self.selected_attribute
    selected_values,        \* self.selected_values
    gdf,                    \* self.gdf
    original_gdf,           \* self.original_gdf
    original_crs,           \* self.original_crs
    gdf_wgs84,              \* self.gdf_wgs84
    colors,                 \* self.colors
    color_mapping,          \* self.color_mapping
    legend_attribute,       \* self.legend_attribute
    console,                \* what the last call printed
    ret,                    \* what the last call returned
    verify,                 \* outcome of _verify_reprojection, if the last call made one
    last_load,              \* the last load that read the file: its branch, the filter it was given
    target_scale,           \* self.target_scale: 0 until _plot_main_map_fixed sets it
    figure                  \* what the last call put on the page, if it was create_professional_map

vars == <<dataset, file_crs, selected_subdivisions, selected_attribute,
          selected_values, gdf, original_gdf, original_crs, gdf_wgs84, colors,
          color_mapping, legend_attribute, console, ret, verify, last_load,
          target_scale, figure>>

file == <<dataset, file_crs, selected_subdivisions>>
filter == <<selected_attribute, selected_values>>
frames == <<gdf, original_gdf, original_crs, gdf_wgs84>>
legend == <<colors, color_mapping, legend_attribute>>

\* one row of self.gdf as _add_dynamic_labels sees it, and the annotation
\* it puts on the axes
VARIABLES
    row,                    \* the row: BLOK present, geometry area and bounds
    annotation              \* ax.annotate(...) made for the row, if any

labels == <<row, annotation>>

\* a CustomLayoutMapGenerator, the dictionaries its callers hand to it and
\* the layout file.  Dictionaries are objects: two names can hold the same one.
VARIABLES
    objects,                \* element dictionaries: object id -> {key: value}
    containers,             \* dictionaries of elements: id -> {element name: object id}
    layout_config,          \* self.layout_config: the id of a container
    default_layout,         \* self.default_layout: the id of a container
    layout_file,            \* the layout file: absent, or the JSON document in it
    layout_ret,             \* the last call on the layout and what it returned
    saved_layout,           \* the value of layout_config at the last successful save
    updates_made            \* update_element_config calls so far

layout == <<objects, containers, layout_config, default_layout, layout_file,
            layout_ret, saved_layout, updates_made>>

\* a MapGeneratorGUI: the TIFF legend rows of its window
VARIABLES
    tiff_legend_entries,    \* self.tiff_legend_entries: color_var and desc_var of each row
    legend_data,            \* the last get_tiff_legend_data call and what it returned
    gui_ops                 \* button presses and edits since the window was constructed

tiff == <<tiff_legend_entries, legend_data, gui_ops>>

\* a MapLayoutBuilder: its layout, the mouse on its preview canvas
VARIABLES
    current_layout,         \* self.current_layout: names and positions, in insertion order
    drag_state,             \* self.drag_state
    creation_state,         \* self.creation_state
    mouse,                  \* the last mouse event, the button, the element the event moved
    events_made             \* mouse events on the canvas so far

builder == <<current_layout, drag_state, creation_state, mouse, events_made>>

\* an EnhancedMapGeneratorGUI: its fields, its worker threads and the
\* callbacks they hand to the main loop
VARIABLES
    shapefile_path,         \* self.shapefile_path.get()
    output_path,            \* self.output_path.get()
    current_gdf,            \* self.current_gdf: the file it was read from, or None
    scanned_gdf,            \* self.gdf of the window: the file it was read from, or None
    available_attributes,   \* self.available_attributes
    attribute_field,        \* self.selected_attribute.get() of the window
    attribute_vars,         \* self.attribute_vars: value and state of each checkbox
    progress,               \* the progress bar is running
    threads,                \* the worker threads that are running
    after_queue,            \* callbacks given to root.after, not yet run
    gui_call,               \* the last handler that ran and the message it showed
    threads_started         \* worker threads started so far

enhanced == <<shapefile_path, output_path, current_gdf, scanned_gdf,
              available_attributes, attribute_field, attribute_vars, progress,
              threads, after_queue, gui_call, threads_started>>

\* the state outside the generator's attributes
others == <<labels, layout, tiff, builder, enhanced>>

\* the state outside each of the other objects
beside_labels == <<vars, layout, tiff, builder, enhanced>>
beside_layout == <<vars, labels, tiff, builder, enhanced>>
beside_tiff == <<vars, labels, layout, builder, enhanced>>
beside_builder == <<vars, labels, layout, tiff, enhanced>>
beside_enhanced == <<vars, labels, layout, tiff, builder>>

\* the files the generator is constructed on: dataset, CRS recorded in the
\* file (None if the file has none), selected_subdivisions
Files ==
    {<<"kebun", UTM48S, NoValues>>,
     <<"kebun", WGS84, Values(<<StrV("SD1")>>)>>,
     <<"kebun", None, Values(<<StrV("XX")>>)>>,
     <<"besar", UTM48S, NoValues>>,
     <<"titik", WGS84, Values(<<StrV("SD1")>>)>>}

\* the values a caller picks from
Universe == <<StrV("1.5"), IntV(2), StrV("Z")>>

\* the hand-picked lists: sub-lists of Universe, at most MaxSel long
RECURSIVE SubLists(_)
SubLists(k) ==
    IF k > Len(Universe) THEN {<<>>}
    ELSE LET rest == SubLists(k + 1)
         IN  rest \cup {<<Universe[k]>> \o l : l \in {r \in rest : Len(r) < MaxSel}}

\* "select all" on TAHUN of the large file
AllYears == [i \in 1..NumBlocks |-> IntV(i)]

ValueLists == SubLists(1) \cup {AllYears}

\* the filters a caller sets: any of the lists on TAHUN, one list on each
\* other attribute name
Filters ==
    ({"TAHUN"} \X ValueLists) \cup
    {<<"BLOK", <<IntV(2)>> >>, <<"LUAS", <<StrV("1.5")>> >>, <<"KODE", <<StrV("Z")>> >>}

Ret(op, bool, scale, bounds) ==
    [op |-> op, bool |-> bool, scale |-> scale, bounds |-> bounds]

NoVerify ==
    [called |-> FALSE, ret |-> FALSE, bounds_ok |-> FALSE, area_ok |-> FALSE,
     exact |-> FALSE]

LastLoad(path, attr, vals) == [path |-> path, attr |-> attr, vals |-> vals]

NoLoad == LastLoad("none", None, NoValues)

\* the attributes after __init__(shapefile_path, selected_subdivisions)
\* nothing on the page
NoFigure ==
    [made |-> FALSE, ret |-> "", viewport_scale |-> 0, scale_text |-> 0,
     scale_bar_label |-> "", fallback |-> FALSE, drawn |-> <<>>, legend_items |-> <<>>]

GeneratorInit(f) ==
    /\ dataset = f[1]
    /\ file_crs = f[2]
    /\ selected_subdivisions = f[3]
    /\ selected_attribute = None
    /\ selected_values = NoValues
    /\ gdf = NoGdf
    /\ original_gdf = NoGdf
    /\ original_crs = None
    /\ gdf_wgs84 = NoGdf
    /\ colors = EmptyDict
    /\ color_mapping = EmptyDict
    /\ legend_attribute = None
    /\ console = {}
    /\ ret = Ret("init", "", 0, NoBounds)
    /\ verify = NoVerify
    /\ last_load = NoLoad
    /\ target_scale = 0
    /\ figure = NoFigure

\* nothing is being labelled
NoRow == [blok_notna |-> FALSE, area |-> 0, m2_per_unit |-> 0, width |-> 0, height |-> 0]
NoAnnotation == [made |-> FALSE, font_size |-> 0, pad_size |-> 0, pad |-> 0,
                 placement |-> "", style |-> ""]

LabelsIdle == row = NoRow /\ annotation = NoAnnotation

(***************************************************************************)
(* CustomLayoutMapGenerator: values, JSON, the default layout               *)
(***************************************************************************)
\* a Python value of a configuration: its type and its content as texts (one
\* text for a scalar, the texts of the items for a list or a tuple)
PyVal(type, texts) == [t |-> type, v |-> texts]
PyNum(text) == PyVal("int", <<text>>)
PyReal(text) == PyVal("float", <<text>>)
PyText(text) == PyVal("str", <<text>>)
PyTrue == PyVal("bool", <<"True">>)
PyList(texts) == PyVal("list", texts)
PyTuple(texts) == PyVal("tuple", texts)

\* json.dump of a value: the JSON value written (lists and tuples are both
\* written as arrays, True as the literal true)
ToJson(val) ==
    CASE val.t = "int" -> [t |-> "integer", v |-> val.v]
      [] val.t = "float" -> [t |-> "real", v |-> val.v]
      [] val.t = "str" -> [t |-> "string", v |-> val.v]
      [] val.t = "bool" -> [t |-> "literal", v |-> IF val.v = <<"True">> THEN <<"true">> ELSE <<"false">>]
      [] val.t \in {"list", "tuple"} -> [t |-> "array", v |-> val.v]

\* json.load of a JSON value (an array is read as a list)
FromJson(j) ==
    CASE j.t = "integer" -> [t |-> "int", v |-> j.v]
      [] j.t = "real" -> [t |-> "float", v |-> j.v]
      [] j.t = "string" -> [t |-> "str", v |-> j.v]
      [] j.t = "literal" -> [t |-> "bool", v |-> IF j.v = <<"true">> THEN <<"True">> ELSE <<"False">>]
      [] j.t = "array" -> [t |-> "list", v |-> j.v]
      [] OTHER -> j

\* a dictionary of dictionaries, value by value
DumpLayout(value) == [n \in DOMAIN value |-> [k \in DOMAIN value[n] |-> ToJson(value[n][k])]]
LoadLayout(doc) == [n \in DOMAIN doc |-> [k \in DOMAIN doc[n] |-> FromJson(doc[n][k])]]

\* self.default_layout as __init__ builds it
DefaultLayoutValue ==
    [main_map |->
        [position |-> PyList(<<"0.05", "0.05", "0.60", "0.93">>), border |-> PyTrue,
         border_color |-> PyText("black"), border_width |-> PyNum("2")],
     title |->
        [position |-> PyList(<<"0.66", "0.88", "0.32", "0.10">>),
         text |-> PyText("PETA KEBUN 1 B\\nPT. REBINMAS JAYA"),
         font_size |-> PyNum("14"), font_weight |-> PyText("bold"),
         text_color |-> PyText("black"), background_color |-> PyText("white"),
         border |-> PyTrue],
     legend |->
        [position |-> PyList(<<"0.66", "0.38", "0.32", "0.18">>),
         title |-> PyText("LEGENDA"), title_font_size |-> PyNum("12"),
         item_font_size |-> PyNum("10"), background_color |-> PyText("white"),
         border |-> PyTrue],
     belitung_overview |->
        [position |-> PyList(<<"0.66", "0.58", "0.32", "0.28">>),
         title |-> PyText("LOKASI DALAM BELITUNG"), title_font_size |-> PyNum("10"),
         background_color |-> PyText("white"), border |-> PyTrue],
     logo_info |->
        [position |-> PyList(<<"0.66", "0.02", "0.32", "0.14">>),
         company_name |-> PyText("PT. REBINMAS JAYA"),
         production_info |-> PyText("Diproduksi untuk : PT. REBINMAS JAYA"),
         program_info |-> PyText("Program: IT Rebinmas | Data: Surveyor RMJ"),
         generated_date |-> PyText("Generated: July 2025"),
         font_size |-> PyNum("8"), background_color |-> PyText("white"),
         border |-> PyTrue],
     compass |->
        [position |-> PyText("overlay"), main_map_position |-> PyList(<<"0.85", "0.85">>),
         size |-> PyReal("0.08"), visible |-> PyTrue],
     scale_bar |->
        [position |-> PyText("overlay"), main_map_position |-> PyList(<<"0.05", "0.05">>),
         visible |-> PyTrue, units |-> PyText("meters")]]

\* the dictionaries callers pass as config_updates: objects of their own
CallerDicts ==
    [updates1 |-> [position |-> PyList(<<"0.1", "0.1", "0.3", "0.1">>),
                   font_size |-> PyNum("16")],
     updates2 |-> [position |-> PyTuple(<<"0.1", "0.2", "0.3", "0.4">>)]]

\* the object that holds element n of the default layout
DefaultObject(n) == "default." \o n
LoadedObject(n) == "loaded." \o n

NoFile == [exists |-> FALSE, doc |-> <<>>]
NoLayoutCall == [op |-> "init", name |-> "", updates |-> "", bool |-> "", layout |-> <<>>]

\* after CustomLayoutMapGenerator(input_path): layout_config is default_layout,
\* the same dictionary
LayoutConstructed ==
    /\ objects = [o \in {DefaultObject(n) : n \in DOMAIN DefaultLayoutValue} \cup
                        DOMAIN CallerDicts |->
                    IF o \in DOMAIN CallerDicts THEN CallerDicts[o]
                    ELSE DefaultLayoutValue[CHOOSE n \in DOMAIN DefaultLayoutValue :
                                               DefaultObject(n) = o]]
    /\ containers = [c \in {"default"} |->
                       [n \in DOMAIN DefaultLayoutValue |-> DefaultObject(n)]]
    /\ layout_config = "default"
    /\ default_layout = "default"
    /\ layout_file = NoFile
    /\ layout_ret = NoLayoutCall
    /\ saved_layout = <<>>
    /\ updates_made = 0

(***************************************************************************)
(* MapGeneratorGUI: the TIFF legend                                         *)
(***************************************************************************)
\* the text of an Entry: a core without outer white space between lead and
\* trail blanks (the core of a text of blanks only is empty)
Text(lead, core, trail) == [lead |-> lead, core |-> core, trail |-> trail]

\* str.strip
Strip(text) == text.core

\* one row: color_var and desc_var
LegendEntry(color, desc) == [color_var |-> color, desc_var |-> desc]

\* default_entries of add_default_tiff_legend_entries
DefaultEntries ==
    <<[color |-> "#69140c", description |-> "Tahap 1"],
      [color |-> "#5b9ddc", description |-> "Tahap 2"],
      [color |-> "#d01975", description |-> "Tahap 3"],
      [color |-> "#b1e47a", description |-> "Tahap 4"]>>

\* add_default_tiff_legend_entries(): one row per default entry, appended
AddDefaultTiffLegendEntries(entries) ==
    entries \o [i \in 1..Len(DefaultEntries) |->
                   LegendEntry(DefaultEntries[i].color,
                               Text(0, DefaultEntries[i].description, 0))]

NoLegendData == [called |-> FALSE, after |-> 0, data |-> <<>>]

\* the window after MapGeneratorGUI(root)
TiffConstructed ==
    /\ tiff_legend_entries = AddDefaultTiffLegendEntries(<<>>)
    /\ legend_data = NoLegendData
    /\ gui_ops = 0

(***************************************************************************)
(* MapLayoutBuilder: the layout and the mouse state after __init__           *)
(***************************************************************************)
\* a position that is no list ("overlay"), and None for a pair of coordinates
Overlay == <<>>
NoPos == <<>>

\* self.default_layout: the elements in the order of the dictionary, their
\* position [left, bottom, width, height] in 1/100 of the axes
BuilderDefaultLayout ==
    <<[name |-> "main_map", position |-> <<5, 5, 60, 93>>],
      [name |-> "title", position |-> <<66, 88, 32, 10>>],
      [name |-> "legend", position |-> <<66, 38, 32, 18>>],
      [name |-> "belitung_overview", position |-> <<66, 58, 32, 28>>],
      [name |-> "logo_info", position |-> <<66, 2, 32, 14>>],
      [name |-> "compass", position |-> Overlay],
      [name |-> "scale_bar", position |-> Overlay]>>

NoDrag == [active |-> FALSE, element |-> None, start_pos |-> NoPos, offset |-> NoPos]
NoCreation ==
    [active |-> FALSE, element_type |-> None, start_pos |-> NoPos, current_rect |-> FALSE]

BuilderConstructed ==
    /\ current_layout = BuilderDefaultLayout
    /\ drag_state = NoDrag
    /\ creation_state = NoCreation
    /\ mouse = [event |-> "init", inaxes |-> FALSE, down |-> FALSE, moved |-> None]
    /\ events_made = 0

(***************************************************************************)
(* EnhancedMapGeneratorGUI: the files it browses, the window after __init__  *)
(***************************************************************************)
\* the shapefiles on disk: whether gpd.read_file reads them, their columns
\* without geometry, the values of each column in value_counts order; common
\* is: the upper-cased value contains KANDIS, CENDONG, RAYA or DIVISI
ShapeFiles ==
    [kebun |-> [readable |-> TRUE, columns |-> <<"SUB_DIVISI", "BLOK">>,
                values |-> [SUB_DIVISI |-> <<[value |-> "Kandis", common |-> TRUE],
                                             [value |-> "Lalang", common |-> FALSE]>>,
                            BLOK |-> <<[value |-> "A1", common |-> FALSE]>>]],
     blok |-> [readable |-> TRUE, columns |-> <<"BLOK">>,
               values |-> [BLOK |-> <<[value |-> "A1", common |-> FALSE],
                                      [value |-> "Raya 2", common |-> TRUE]>>]],
     rusak |-> [readable |-> FALSE, columns |-> <<>>, values |-> <<>>]]

GuiCall(op, message, readable, after_browse) ==
    [op |-> op, message |-> message, readable |-> readable,
     after_browse |-> after_browse]

\* after EnhancedMapGeneratorGUI(root): the default shapefile is the path if it
\* exists
EnhancedConstructed ==
    /\ shapefile_path \in {"", "kebun"}
    /\ output_path = ""
    /\ current_gdf = None
    /\ scanned_gdf = None
    /\ available_attributes = <<>>
    /\ attribute_field = ""
    /\ attribute_vars = <<>>
    /\ progress = FALSE
    /\ threads = {}
    /\ after_queue = <<>>
    /\ gui_call = GuiCall("init", "", FALSE, FALSE)
    /\ threads_started = 0

Init ==
    /\ \E f \in Files : GeneratorInit(f)
    /\ LabelsIdle
    /\ LayoutConstructed
    /\ TiffConstructed
    /\ BuilderConstructed
    /\ EnhancedConstructed

\* set_attribute_filter(attribute_name, selected_values)
SetAttributeFilter(attr, list) ==
    /\ selected_attribute' = attr
    /\ selected_values' = Values(list)
    /\ console' = {"filter_set"}
    /\ ret' = Ret("set_attribute_filter", "", 0, NoBounds)
    /\ verify' = NoVerify
    /\ figure' = NoFigure
    /\ UNCHANGED <<others, target_scale, file, frames, legend, last_load>>

\* clear_attribute_filter()
ClearAttributeFilter ==
    /\ selected_attribute' = None
    /\ selected_values' = NoValues
    /\ console' = {"filter_cleared"}
    /\ ret' = Ret("clear_attribute_filter", "", 0, NoBounds)
    /\ verify' = NoVerify
    /\ figure' = NoFigure
    /\ UNCHANGED <<others, target_scale, file, frames, legend, last_load>>

\* _generate_subdivision_colors(): [colors, color_mapping, legend_attribute]
GenerateSubdivisionColors(d, g, old) ==
    IF "SUB_DIVISI" \in Columns(d)
    THEN LET c == AssignColors(Unique(ColumnValues(d, g, "SUB_DIVISI")),
                               base_colors, 0, EmptyDict)
         IN  [colors |-> c, color_mapping |-> c, legend_attribute |-> "SUB_DIVISI"]
    ELSE old

\* _generate_colors_for_attribute_values()
GenerateColorsForAttributeValues(d, g, attr, old) ==
    IF attr \in Columns(d)
    THEN LET c == AssignColors(Unique(ColumnValues(d, g, attr)),
                               enhanced_colors, 0, EmptyDict)
         IN  [colors |-> c, color_mapping |-> c, legend_attribute |-> attr]
    ELSE GenerateSubdivisionColors(d, g, old)

Legend == [colors |-> colors, color_mapping |-> color_mapping,
           legend_attribute |-> legend_attribute]

BoolStr(b) == IF b THEN "True" ELSE "False"


(***************************************************************************)
(* load_data and load_data_with_attribute_filter                           *)
(***************************************************************************)
\* the round-trip errors of the projection library the model tries:
\* microdegrees on the bounds, per mille on the area
BoundErrors == {0, 2000}
AreaErrors == {0, 20}

\* the first lines of both loaders: read, default the CRS, convert to UTM
\*   if self.gdf.crs != 'EPSG:32748': self.gdf = self.gdf.to_crs('EPSG:32748')
Normalize(g) == IF g.crs # UTM48S THEN ToCrs(g, UTM48S) ELSE g

\* the collection the empty-filter branch and the filter-error branch leave
\* in self.gdf: gpd.read_file again, set_crs if None, and nothing else
ReloadAllWrong(d, fcrs, filtered) == filtered
ReloadAll(d, fcrs, filtered) == SetCrsIfNone(ReadFile(d, fcrs))

\* the filtering section of load_data_with_attribute_filter, from the
\* converted frame g1: [gdf, path, console, attr, vals, legend]
FilterEmpty(d, g, old) ==
    [gdf |-> g, path |-> "empty_fallback",
     console |-> {"empty_filter_warning", "filter_cleared"},
     attr |-> None, vals |-> NoValues,
     legend |-> GenerateColorsForAttributeValues(d, g, None, old)]

FilterMatched(d, filtered, attr, vals, old) ==
    [gdf |-> filtered, path |-> "filtered", console |-> {"filter_applied"},
     attr |-> attr, vals |-> vals,
     legend |-> GenerateColorsForAttributeValues(d, filtered, attr, old)]

FilterError(d, g, attr, vals, old) ==
    [gdf |-> g, path |-> "filter_error", console |-> {"filter_error_fallback"},
     attr |-> attr, vals |-> vals,
     legend |-> GenerateSubdivisionColors(d, g, old)]

\* if filtered_count == 0: ... else: self.gdf = self.gdf[mask]
FilterOutcome(d, fcrs, filtered, attr, vals, old) ==
    IF Len(filtered.feats) = 0
    THEN FilterEmpty(d, ReloadAll(d, fcrs, filtered), old)
    ELSE FilterMatched(d, filtered, attr, vals, old)

ApplyAttributeFilter(d, fcrs, g1, attr, vals, old) ==
    IF ~FilterActive(attr, vals)
    THEN [gdf |-> g1, path |-> "no_filter", console |-> {"no_filter_applied"},
          attr |-> attr, vals |-> vals,
          legend |-> GenerateSubdivisionColors(d, g1, old)]
    ELSE IF attr \notin Columns(d)
    THEN \* KeyError inside the try block
         FilterError(d, ReloadAll(d, fcrs, g1), attr, vals, old)
    ELSE FilterOutcome(d, fcrs,
                       [g1 EXCEPT !.feats = SelectRows(d, g1.feats, attr,
                                               ConvertedValues(attr, vals.list))],
                       attr, vals, old)

\* what a loader does with the outcome of _verify_reprojection: nothing
\* (the call is a statement, its value is dropped)
LoadSurvivesWrong(verified) == verified
LoadSurvives(verified) == TRUE

\* the tail of load_data_with_attribute_filter: g0 is the frame as read,
\* f the outcome of the filtering section
StoreAttributeLoad(g0, f, w, v) ==
    /\ original_gdf' = g0
    /\ original_crs' = g0.crs
    /\ gdf' = f.gdf
    /\ gdf_wgs84' = w
    /\ selected_attribute' = f.attr
    /\ selected_values' = f.vals
    /\ colors' = f.legend.colors
    /\ color_mapping' = f.legend.color_mapping
    /\ legend_attribute' = f.legend.legend_attribute
    /\ console' = f.console \cup v.console
    /\ verify' = [called |-> TRUE, ret |-> v.ret,
                  bounds_ok |-> v.bounds_ok, area_ok |-> v.area_ok,
                  exact |-> v.exact]
    /\ ret' = Ret("load_data_with_attribute_filter",
                  BoolStr(LoadSurvives(v.ret)), 0, NoBounds)
    /\ last_load' = LastLoad(f.path, selected_attribute, selected_values)
    /\ figure' = NoFigure
    /\ UNCHANGED <<others, target_scale, file>>

\* self.gdf_wgs84 = self.gdf.to_crs('EPSG:4326'); self._verify_reprojection()
FinishAttributeLoad(g0, f, raises, err, area_err) ==
    StoreAttributeLoad(g0, f, ToCrs(f.gdf, WGS84),
                       VerifyReprojection(dataset, g0, ToCrs(f.gdf, WGS84),
                                          raises, err, area_err))

LoadDataWithAttributeFilter(read_fails, raises, err, area_err) ==
    IF read_fails
    THEN /\ ret' = Ret("load_data_with_attribute_filter", "False", 0, NoBounds)
         /\ console' = {"load_error"}
         /\ verify' = NoVerify
         /\ figure' = NoFigure
         /\ UNCHANGED <<others, target_scale, file, filter, frames, legend, last_load>>
    ELSE FinishAttributeLoad(
             SetCrsIfNone(ReadFile(dataset, file_crs)),
             ApplyAttributeFilter(dataset, file_crs,
                                  Normalize(SetCrsIfNone(ReadFile(dataset, file_crs))),
                                  selected_attribute, selected_values, Legend),
             raises, err, area_err)

\* the subdivision filter of load_data: [rows, key_error]
\*   self.gdf = self.gdf[self.gdf['SUB_DIVISI'].isin(self.selected_subdivisions)]
SubdivisionFilter(d, g1, subdivisions) ==
    IF subdivisions.none \/ subdivisions.list = <<>>
    THEN [rows |-> g1.feats, key_error |-> FALSE, filtered |-> FALSE]
    ELSE IF "SUB_DIVISI" \notin Columns(d)
    THEN [rows |-> g1.feats, key_error |-> TRUE, filtered |-> FALSE]
    ELSE [rows |-> SelectRows(d, g1.feats, "SUB_DIVISI", Range(subdivisions.list)),
          key_error |-> FALSE, filtered |-> TRUE]

StoreLoad(g0, g1, sf, l, v) ==
    /\ original_gdf' = g0
    /\ original_crs' = g0.crs
    /\ gdf' = [g1 EXCEPT !.feats = sf.rows]
    /\ gdf_wgs84' = [ToCrs(g1, WGS84) EXCEPT !.feats = sf.rows]
    /\ colors' = l.colors
    /\ color_mapping' = l.color_mapping
    /\ legend_attribute' = l.legend_attribute
    /\ console' = v.console \cup
          (IF sf.key_error THEN {"load_error"}
           ELSE IF sf.filtered THEN {"subdivision_filter_applied"} ELSE {})
    /\ verify' = [called |-> TRUE, ret |-> v.ret,
                  bounds_ok |-> v.bounds_ok, area_ok |-> v.area_ok,
                  exact |-> v.exact]
    /\ ret' = Ret("load_data",
                  BoolStr(~sf.key_error /\ LoadSurvives(v.ret)), 0, NoBounds)
    /\ last_load' = LastLoad(IF sf.key_error THEN "error" ELSE "load_data",
                             None, NoValues)
    /\ figure' = NoFigure
    /\ UNCHANGED <<others, target_scale, file, filter>>

\* the KeyError leaves the colours as they were
FinishLoad(g0, g1, sf, raises, err, area_err) ==
    StoreLoad(g0, g1, sf,
              IF sf.key_error THEN Legend
              ELSE GenerateSubdivisionColors(dataset, [g1 EXCEPT !.feats = sf.rows],
                                             Legend),
              VerifyReprojection(dataset, g0, ToCrs(g1, WGS84), raises, err, area_err))

LoadData(read_fails, raises, err, area_err) ==
    IF read_fails
    THEN /\ ret' = Ret("load_data", "False", 0, NoBounds)
         /\ console' = {"load_error"}
         /\ verify' = NoVerify
         /\ figure' = NoFigure
         /\ UNCHANGED <<others, target_scale, file, filter, frames, legend, last_load>>
    ELSE FinishLoad(SetCrsIfNone(ReadFile(dataset, file_crs)),
                    Normalize(SetCrsIfNone(ReadFile(dataset, file_crs))),
                    SubdivisionFilter(dataset,
                                      Normalize(SetCrsIfNone(ReadFile(dataset, file_crs))),
                                      selected_subdivisions),
                    raises, err, area_err)

(***************************************************************************)
(* Scale and viewport, as _plot_main_map_fixed calls them                  *)
(***************************************************************************)
\* target scales tried: the catalog and some that are not in it
TargetScales == {1000, 5000, 37842, 500000}

OptimalScale(raises) ==
    LET r == CalculateOptimalScale(dataset, gdf, raises)
    IN  /\ ret' = Ret("_calculate_optimal_scale_from_zoom", "", r.ret, NoBounds)
        /\ console' = r.console
        /\ verify' = NoVerify
        /\ figure' = NoFigure
        /\ UNCHANGED <<others, target_scale, file, filter, frames, legend, last_load>>

OptimalZoomBounds(scale) ==
    /\ ret' = Ret("_calculate_zoom_bounds_for_optimal_scale", "", scale,
                  ZoomBounds(dataset, gdf, scale))
    /\ console' = {}
    /\ verify' = NoVerify
    /\ figure' = NoFigure
    /\ UNCHANGED <<others, target_scale, file, filter, frames, legend, last_load>>

\* the colours _plot_main_map_fixed draws with: it generates them itself when
\* the attribute it colours by is a column and self.colors is empty
PlotColours(d, g, attr, old) ==
    LET color_attribute ==
            IF attr # None THEN attr
            ELSE IF "SUB_DIVISI" \in Columns(d) THEN "SUB_DIVISI" ELSE None
    IN  IF color_attribute \in Columns(d) /\ old.colors = EmptyDict
        THEN GenerateColorsForAttributeValues(d, g, attr, old)
        ELSE old

\* the attribute the main map and the legend go by: the selected attribute,
\* else SUB_DIVISI if the collection has that column
ColorAttribute(d, attr) ==
    IF attr # None THEN attr
    ELSE IF "SUB_DIVISI" \in Columns(d) THEN "SUB_DIVISI" ELSE None

\* the values the main map draws a subset for: dropna().unique() of the
\* colouring attribute (nothing when the features are drawn in one colour)
DrawnValues(d, g, attr) ==
    IF ColorAttribute(d, attr) \in Columns(d)
    THEN Unique(ColumnValues(d, g, ColorAttribute(d, attr)))
    ELSE <<>>

\* the names _plot_main_map_fixed binds before its last statements
PlotLocals ==
    {"color_attribute", "unique_values", "plotted_count", "bounds",
     "optimal_scale", "optimal_bounds", "study_bounds", "x_buffer", "y_buffer",
     "margin_x", "margin_y", "fallback_xlim", "fallback_ylim"}

\* the statements after the axes limits: self.target_scale = target_scale
\* reads the name target_scale, then the grid, then the aspect; a NameError
\* goes to the handler of the function
PlotTail(locals) ==
    IF "target_scale" \in locals
    THEN {"limits_applied", "grid_added", "aspect_equal"}
    ELSE {"limits_applied", "plot_error"}

\* the limits _plot_main_map_fixed sets on the axes: the optimal bounds, or,
\* when there are none, the total bounds with a margin of 20% on each side
AxesLimits(d, g, optimal_bounds) ==
    IF optimal_bounds.kind # "none" THEN optimal_bounds
    ELSE LET b == TotalBounds(d, g)
         IN  [kind |-> "fallback",
              min_x |-> b.x0 * XDen - (b.x1 - b.x0) * (XDen \div 5),
              min_y |-> b.y0 * YDen - (b.y1 - b.y0) * (YDen \div 5),
              max_x |-> b.x1 * XDen + (b.x1 - b.x0) * (XDen \div 5),
              max_y |-> b.y1 * YDen + (b.y1 - b.y0) * (YDen \div 5)]

\* create_professional_map reaches _plot_main_map_fixed only with a collection
\* that is loaded and not empty.  The plot step selects the scale, computes
\* the bounds for it, stores the scale in self.target_scale and sets the axes
\* limits; ret.scale is self.target_scale and ret.bounds the limits it leaves.
\* Its last statement reads the undefined name target_scale: the NameError is
\* caught and printed, self.target_scale keeps the selected scale.
PlotMainMapFixed(raises) ==
    /\ gdf.loaded /\ Len(gdf.feats) > 0
    /\ LET l == PlotColours(dataset, gdf, selected_attribute, Legend)
           r == CalculateOptimalScale(dataset, gdf, raises)
       IN  /\ colors' = l.colors
           /\ color_mapping' = l.color_mapping
           /\ legend_attribute' = l.legend_attribute
           /\ ret' = Ret("_plot_main_map_fixed", "", r.ret,
                         AxesLimits(dataset, gdf, ZoomBounds(dataset, gdf, r.ret)))
           /\ console' = r.console \cup PlotTail(PlotLocals)
           /\ target_scale' = r.ret
    /\ verify' = NoVerify
    /\ figure' = NoFigure
    /\ UNCHANGED <<others, file, filter, frames, last_load>>

\* the order of create_professional_map: _plot_main_map_fixed comes before
\* _add_north_arrow_and_scale_fixed, which so reads the attribute as the plot
\* left it (before: the attribute as it was when create_professional_map began)
TargetScaleAtNorthArrowStale(before, plotted) == before
TargetScaleAtNorthArrow(before, plotted) == plotted

\* the scale bar of _add_north_arrow_and_scale_fixed
ScaleBarLabel(optimal_scale) ==
    IF optimal_scale >= 200000 THEN "20 km"
    ELSE IF optimal_scale >= 75000 THEN "10 km"
    ELSE IF optimal_scale >= 30000 THEN "5 km"
    ELSE IF optimal_scale >= 15000 THEN "2 km"
    ELSE IF optimal_scale >= 5000 THEN "1 km"
    ELSE IF optimal_scale >= 2000 THEN "500 m"
    ELSE "200 m"

\* _add_north_arrow_and_scale_fixed: the scale text and the scale bar
\*   if hasattr(self, 'target_scale') and self.target_scale: ... else: 25000
NorthArrowAndScale(scale) ==
    IF scale # 0
    THEN [scale_text |-> scale, scale_bar_label |-> ScaleBarLabel(scale),
          fallback |-> FALSE]
    ELSE [scale_text |-> DefaultScale, scale_bar_label |-> "2 km", fallback |-> TRUE]

\* the legend rows: y_pos in hundredths of the axes height
LegendTopY == 75
LegendStepY == 12
LegendFloorY == 30

\* the loop of _create_legend_fixed over unique_values: one row per value,
\* "if y_pos < 0.3: break" after each row
RECURSIVE LegendRows(_, _)
LegendRows(unique_values, y_pos) ==
    IF unique_values = <<>> THEN <<>>
    ELSE <<Head(unique_values)>> \o
         (IF y_pos - LegendStepY < LegendFloorY THEN <<>>
          ELSE LegendRows(Tail(unique_values), y_pos - LegendStepY))

\* _create_legend_fixed: the values that get a legend row
CreateLegendFixed(d, g, attr) ==
    IF ColorAttribute(d, attr) \in Columns(d)
    THEN LegendRows(Unique(ColumnValues(d, g, ColorAttribute(d, attr))), LegendTopY)
    ELSE <<>>

\* create_professional_map(output_path): save_fails is savefig raising
\* something other than PermissionError
CreateProfessionalMap(raises, save_fails) ==
    IF ~gdf.loaded \/ Len(gdf.feats) = 0
    THEN /\ figure' = [NoFigure EXCEPT !.made = TRUE, !.ret = "no_data"]
         /\ ret' = Ret("create_professional_map", "False", 0, NoBounds)
         /\ console' = {"no_data"}
         /\ verify' = NoVerify
         /\ UNCHANGED <<others, target_scale, file, filter, frames, legend, last_load>>
    ELSE LET l == PlotColours(dataset, gdf, selected_attribute, Legend)
             r == CalculateOptimalScale(dataset, gdf, raises)
             n == NorthArrowAndScale(TargetScaleAtNorthArrow(target_scale, r.ret))
         IN  /\ colors' = l.colors
             /\ color_mapping' = l.color_mapping
             /\ legend_attribute' = l.legend_attribute
             /\ target_scale' = r.ret
             /\ figure' = [made |-> TRUE, ret |-> BoolStr(~save_fails),
                           viewport_scale |-> r.ret,
                           scale_text |-> n.scale_text,
                           scale_bar_label |-> n.scale_bar_label,
                           fallback |-> n.fallback,
                           drawn |-> DrawnValues(dataset, gdf, selected_attribute),
                           legend_items |->
                               CreateLegendFixed(dataset, gdf, selected_attribute)]
             /\ ret' = Ret("create_professional_map", BoolStr(~save_fails), r.ret,
                           AxesLimits(dataset, gdf, ZoomBounds(dataset, gdf, r.ret)))
             /\ console' = r.console \cup PlotTail(PlotLocals) \cup
                               (IF save_fails THEN {"create_error"} ELSE {"map_created"})
             /\ verify' = NoVerify
             /\ UNCHANGED <<others, file, filter, frames, last_load>>

Next ==
    \/ \E f \in Filters : SetAttributeFilter(f[1], f[2])
    \/ ClearAttributeFilter
    \/ \E read_fails \in BOOLEAN, raises \in BOOLEAN, err \in BoundErrors,
          area_err \in AreaErrors :
          /\ (read_fails \/ raises) => (err = 0 /\ area_err = 0)
          /\ read_fails => ~raises
          /\ LoadData(read_fails, raises, err, area_err)
    \/ \E read_fails \in BOOLEAN, raises \in BOOLEAN, err \in BoundErrors,
          area_err \in AreaErrors :
          /\ (read_fails \/ raises) => (err = 0 /\ area_err = 0)
          /\ read_fails => ~raises
          /\ LoadDataWithAttributeFilter(read_fails, raises, err, area_err)
    \/ \E raises \in BOOLEAN : OptimalScale(raises)
    \/ \E scale \in TargetScales : OptimalZoomBounds(scale)

allvars == <<vars, others>>

Spec == Init /\ [][Next]_allvars

\* drawing: the generator is given a filter, loads (the file is readable and
\* the projection exact) and draws the page or the main map alone
DrawNext ==
    \/ \E f \in Filters : SetAttributeFilter(f[1], f[2])
    \/ ClearAttributeFilter
    \/ LoadData(FALSE, FALSE, 0, 0)
    \/ LoadDataWithAttributeFilter(FALSE, FALSE, 0, 0)
    \/ \E raises \in BOOLEAN : PlotMainMapFixed(raises)
    \/ \E raises \in BOOLEAN, save_fails \in BOOLEAN :
          CreateProfessionalMap(raises, save_fails)

DrawSpec == Init /\ [][DrawNext]_allvars

(***************************************************************************)
(* _add_dynamic_labels: one iteration of its loop over the rows of self.gdf *)
(***************************************************************************)
\* the generator, constructed and left alone
GeneratorIdle == GeneratorInit(<<"kebun", UTM48S, NoValues>>)

\* geometry.area of the rows tried: around every threshold of the handler,
\* and a quarter of some thresholds
LabelAreas ==
    {0, 2500, 12500, 25000, 125000} \cup
    UNION {{t - 1, t, t + 1} : t \in {5000, 10000, 50000, 100000, 500000}}

\* meters_per_degree ** 2 = (111320.0 * cos(radians(lat_center))) ** 2 of the
\* rows tried: the factor the handler multiplies geometry.area by
M2PerUnit == {1, 4}

\* width and height of geometry.bounds of the rows tried
LabelShapes == {<<4, 1>>, <<1, 4>>, <<1, 1>>, <<1, 0>>}

Rows ==
    {[blok_notna |-> b, area |-> a, m2_per_unit |-> m, width |-> sh[1], height |-> sh[2]] :
        b \in BOOLEAN, a \in LabelAreas, m \in M2PerUnit, sh \in LabelShapes}

\* area_m2 = area_degrees * (meters_per_degree ** 2)
AreaM2(r) == r.area * r.m2_per_unit

\* the if/elif chain on area_m2: [font_size, pad_size], pad_size in 1/100
LabelSizeClass(area_m2) ==
    IF area_m2 > 500000 THEN [font_size |-> 11, pad_size |-> 40]
    ELSE IF area_m2 > 100000 THEN [font_size |-> 10, pad_size |-> 35]
    ELSE IF area_m2 > 50000 THEN [font_size |-> 9, pad_size |-> 30]
    ELSE IF area_m2 > 10000 THEN [font_size |-> 8, pad_size |-> 25]
    ELSE [font_size |-> 7, pad_size |-> 20]

\* aspect_ratio = width / height if height > 0 else 1, compared with 3 and 0.33
LabelPlacement(width, height) ==
    IF height > 0 /\ width > 3 * height THEN "above_centroid"
    ELSE IF height > 0 /\ 100 * width < 33 * height THEN "right_of_centroid"
    ELSE "centroid"

\* the ax.annotate call: minimal styling with pad 0.1 below 5000, else the
\* box padded by pad_size
Annotate(r) ==
    LET c == LabelSizeClass(AreaM2(r))
    IN  [made |-> TRUE, font_size |-> c.font_size, pad_size |-> c.pad_size,
         pad |-> IF AreaM2(r) < 5000 THEN 10 ELSE c.pad_size,
         placement |-> LabelPlacement(r.width, r.height),
         style |-> IF AreaM2(r) < 5000 THEN "minimal" ELSE "boxed"]

\* if 'BLOK' in row and pd.notna(row['BLOK']): ... ax.annotate(...)
AddDynamicLabels ==
    /\ row # NoRow
    /\ annotation' = IF row.blok_notna THEN Annotate(row)
                     ELSE [NoAnnotation EXCEPT !.style = "skipped"]
    /\ UNCHANGED <<row, beside_labels>>

LabelInit ==
    /\ GeneratorIdle
    /\ LayoutConstructed
    /\ TiffConstructed
    /\ BuilderConstructed
    /\ EnhancedConstructed
    /\ row \in Rows
    /\ annotation = NoAnnotation

LabelNext == AddDynamicLabels

LabelSpec == LabelInit /\ [][LabelNext]_allvars

(***************************************************************************)
(* CustomLayoutMapGenerator: update, get, save, load                        *)
(***************************************************************************)
\* the element names callers update: one of the default layout, two new ones
UpdateNames == {"title", "inset", "extra"}

\* dict.update
DictUpdate(d, u) ==
    [k \in DOMAIN d \cup DOMAIN u |-> IF k \in DOMAIN u THEN u[k] ELSE d[k]]

\* d[key] = value on a dictionary of elements
DictStore(d, key, value) ==
    [n \in DOMAIN d \cup {key} |-> IF n = key THEN value ELSE d[n]]

\* self.layout_config.get(element_name, {}) in a given heap
ElementConfig(objs, conts, config, name) ==
    IF name \in DOMAIN conts[config] THEN objs[conts[config][name]] ELSE <<>>

\* get_element_config(element_name)
GetElementConfig(name) == ElementConfig(objects, containers, layout_config, name)

\* the value of a dictionary of elements
LayoutValue(objs, conts, config) ==
    [n \in DOMAIN conts[config] |-> objs[conts[config][n]]]

LayoutCall(op, name, updates, bool, value) ==
    [op |-> op, name |-> name, updates |-> updates, bool |-> bool, layout |-> value]

\* update_element_config(element_name, config_updates): an element that is
\* there is updated in place, a new name is bound to config_updates itself
UpdateElementConfig(name, u) ==
    /\ updates_made < MaxUpdates
    /\ IF name \in DOMAIN containers[layout_config]
       THEN /\ objects' = [objects EXCEPT ![containers[layout_config][name]] =
                                DictUpdate(@, objects[u])]
            /\ UNCHANGED containers
       ELSE /\ containers' = [containers EXCEPT ![layout_config] =
                                   DictStore(@, name, u)]
            /\ UNCHANGED objects
    /\ layout_ret' = LayoutCall("update_element_config", name, u, "", <<>>)
    /\ updates_made' = updates_made + 1
    /\ UNCHANGED <<layout_config, default_layout, layout_file, saved_layout>>
    /\ UNCHANGED beside_layout

\* save_layout_to_file(layout_file); fails: open() raises
SaveLayoutToFile(fails) ==
    /\ IF fails
       THEN /\ layout_ret' = LayoutCall("save_layout_to_file", "generator", "", "False", <<>>)
            /\ UNCHANGED <<layout_file, saved_layout>>
       ELSE /\ layout_file' =
                  [exists |-> TRUE,
                   doc |-> DumpLayout(LayoutValue(objects, containers, layout_config))]
            /\ saved_layout' = LayoutValue(objects, containers, layout_config)
            /\ layout_ret' = LayoutCall("save_layout_to_file", "generator", "", "True", <<>>)
    /\ UNCHANGED <<objects, containers, layout_config, default_layout, updates_made>>
    /\ UNCHANGED beside_layout

\* the objects json.load creates
\* load_layout_from_file(layout_file) on the generator; fails: open() raises
LoadLayoutFromFile(fails) ==
    /\ IF fails \/ ~layout_file.exists
       THEN /\ layout_ret' = LayoutCall("load_layout_from_file", "generator", "", "False",
                                         LayoutValue(objects, containers, layout_config))
            /\ UNCHANGED <<objects, containers, layout_config>>
       ELSE /\ objects' =
                  [o \in DOMAIN objects \cup
                         {LoadedObject(n) : n \in DOMAIN layout_file.doc} |->
                      IF \E n \in DOMAIN layout_file.doc : o = LoadedObject(n)
                      THEN LoadLayout(layout_file.doc)[
                               CHOOSE n \in DOMAIN layout_file.doc : o = LoadedObject(n)]
                      ELSE objects[o]]
            /\ containers' =
                  [c \in DOMAIN containers \cup {"loaded"} |->
                      IF c = "loaded"
                      THEN [n \in DOMAIN layout_file.doc |-> LoadedObject(n)]
                      ELSE containers[c]]
            /\ layout_config' = "loaded"
            /\ layout_ret' = LayoutCall("load_layout_from_file", "generator", "", "True",
                                         LoadLayout(layout_file.doc))
    /\ UNCHANGED <<default_layout, layout_file, saved_layout, updates_made>>
    /\ UNCHANGED beside_layout

\* new_generator = CustomLayoutMapGenerator(path);
\* new_generator.load_layout_from_file(layout_file): layout_ret.layout is
\* new_generator.layout_config after the call
NewGeneratorLoad(fails) ==
    /\ layout_ret' =
          IF fails \/ ~layout_file.exists
          THEN LayoutCall("load_layout_from_file", "new_generator", "", "False",
                          DefaultLayoutValue)
          ELSE LayoutCall("load_layout_from_file", "new_generator", "", "True",
                          LoadLayout(layout_file.doc))
    /\ UNCHANGED <<objects, containers, layout_config, default_layout, layout_file,
                   saved_layout, updates_made>>
    /\ UNCHANGED beside_layout

\* reset_to_default_layout(): self.layout_config = self.default_layout.copy(),
\* a new dictionary of elements that holds the element dictionaries of
\* default_layout themselves (dict.copy is shallow)
ResetToDefaultLayout ==
    /\ containers' = [c \in DOMAIN containers \cup {"reset"} |->
                         IF c = "reset" THEN containers[default_layout]
                         ELSE containers[c]]
    /\ layout_config' = "reset"
    /\ layout_ret' = LayoutCall("reset_to_default_layout", "generator", "", "",
                                LayoutValue(objects, containers, default_layout))
    /\ UNCHANGED <<objects, default_layout, layout_file, saved_layout, updates_made>>
    /\ UNCHANGED beside_layout

LayoutInit ==
    /\ GeneratorIdle
    /\ LabelsIdle
    /\ LayoutConstructed
    /\ TiffConstructed
    /\ BuilderConstructed
    /\ EnhancedConstructed

LayoutNext ==
    \/ \E name \in UpdateNames, u \in DOMAIN CallerDicts : UpdateElementConfig(name, u)
    \/ \E fails \in BOOLEAN : SaveLayoutToFile(fails)
    \/ \E fails \in BOOLEAN : LoadLayoutFromFile(fails)
    \/ \E fails \in BOOLEAN : NewGeneratorLoad(fails)
    \/ ResetToDefaultLayout

LayoutSpec == LayoutInit /\ [][LayoutNext]_allvars

(***************************************************************************)
(* MapGeneratorGUI: TIFF legend buttons, edits and get_tiff_legend_data     *)
(***************************************************************************)
\* what askcolor returns as color[1]: a colour, or None on cancel
AskColor == {"#00ff00", "None"}

\* what a user leaves in a description Entry
Typed == {Text(0, "", 0), Text(2, "", 0), Text(1, "Sawah", 1)}

\* list.remove of the row at position i
RemoveAt(entries, i) ==
    [j \in 1..(Len(entries) - 1) |-> IF j < i THEN entries[j] ELSE entries[j + 1]]

\* the entries with a description, stripped
RECURSIVE LegendData(_)
LegendData(entries) ==
    IF entries = <<>> THEN <<>>
    ELSE LET entry == Head(entries)
         IN (IF Strip(entry.desc_var) # ""
             THEN <<[color |-> entry.color_var, description |-> Strip(entry.desc_var)]>>
             ELSE <<>>) \o LegendData(Tail(entries))

\* add_tiff_legend_entry(): the "Add Legend Entry" button
AddTiffLegendEntry ==
    /\ gui_ops < MaxGuiOps
    /\ tiff_legend_entries' =
          Append(tiff_legend_entries, LegendEntry("#FF0000", Text(0, "", 0)))
    /\ gui_ops' = gui_ops + 1
    /\ UNCHANGED <<legend_data, beside_tiff>>

\* remove_tiff_legend_entry(frame, legend_entry): the "Remove" button of row i
RemoveTiffLegendEntry(i) ==
    /\ gui_ops < MaxGuiOps
    /\ i \in 1..Len(tiff_legend_entries)
    /\ tiff_legend_entries' = RemoveAt(tiff_legend_entries, i)
    /\ gui_ops' = gui_ops + 1
    /\ UNCHANGED <<legend_data, beside_tiff>>

\* clear_tiff_legend_entries(): the "Clear All" button
ClearTiffLegendEntries ==
    /\ gui_ops < MaxGuiOps
    /\ tiff_legend_entries' = <<>>
    /\ gui_ops' = gui_ops + 1
    /\ UNCHANGED <<legend_data, beside_tiff>>

\* choose_color(color_var, color_btn): the "Color" button of row i
ChooseColor(i, color) ==
    /\ gui_ops < MaxGuiOps
    /\ i \in 1..Len(tiff_legend_entries)
    /\ tiff_legend_entries' =
          IF color # "None"
          THEN [tiff_legend_entries EXCEPT ![i].color_var = color]
          ELSE tiff_legend_entries
    /\ gui_ops' = gui_ops + 1
    /\ UNCHANGED <<legend_data, beside_tiff>>

\* typing in the description Entry of row i (its textvariable is desc_var)
EditDescription(i, text) ==
    /\ gui_ops < MaxGuiOps
    /\ i \in 1..Len(tiff_legend_entries)
    /\ tiff_legend_entries' = [tiff_legend_entries EXCEPT ![i].desc_var = text]
    /\ gui_ops' = gui_ops + 1
    /\ UNCHANGED <<legend_data, beside_tiff>>

\* get_tiff_legend_data()
GetTiffLegendData ==
    /\ legend_data' = [called |-> TRUE, after |-> gui_ops,
                       data |-> LegendData(tiff_legend_entries)]
    /\ UNCHANGED <<tiff_legend_entries, gui_ops, beside_tiff>>

TiffInit ==
    /\ GeneratorIdle
    /\ LabelsIdle
    /\ LayoutConstructed
    /\ TiffConstructed
    /\ BuilderConstructed
    /\ EnhancedConstructed

TiffNext ==
    \/ AddTiffLegendEntry
    \/ \E i \in 1..(Len(DefaultEntries) + MaxGuiOps) : RemoveTiffLegendEntry(i)
    \/ ClearTiffLegendEntries
    \/ \E i \in 1..(Len(DefaultEntries) + MaxGuiOps), color \in AskColor :
           ChooseColor(i, color)
    \/ \E i \in 1..(Len(DefaultEntries) + MaxGuiOps), text \in Typed :
           EditDescription(i, text)
    \/ GetTiffLegendData

TiffSpec == TiffInit /\ [][TiffNext]_allvars

(***************************************************************************)
(* MapLayoutBuilder: the mouse handlers of the preview canvas               *)
(***************************************************************************)
\* where the mouse is at an event: in an element, or in none
MousePoints == {<<30, 50>>, <<70, 90>>, <<80, 45>>, <<2, 2>>}

ElementTypes == {"compass", "scale_bar", "text_box"}

\* rect.contains(event) of the rectangle refresh_preview draws for a position
\* that is a list
Contains(pos, p) ==
    /\ Len(pos) = 4
    /\ pos[1] <= p[1] /\ p[1] <= pos[1] + pos[3]
    /\ pos[2] <= p[2] /\ p[2] <= pos[2] + pos[4]

\* the loop over self.element_rectangles: the first rectangle that contains
\* the event, None if there is none
ClickedElement(l, p) ==
    LET hits == {i \in DOMAIN l : Contains(l[i].position, p)}
    IN  IF hits = {} THEN None ELSE l[SetMin(hits)].name

PositionOf(l, name) ==
    l[CHOOSE i \in DOMAIN l : l[i].name = name].position

MouseEvent(event, inaxes, down, moved) ==
    [event |-> event, inaxes |-> inaxes, down |-> down, moved |-> moved]

\* on_canvas_click(event): the button goes down at p
OnCanvasClick(inaxes, p) ==
    /\ events_made < MaxEvents
    /\ ~mouse.down
    /\ IF ~inaxes
       THEN UNCHANGED <<drag_state, creation_state>>
       ELSE IF creation_state.active
       THEN /\ creation_state' = [creation_state EXCEPT !.start_pos = p]
            /\ UNCHANGED drag_state
       ELSE /\ drag_state' =
                  LET clicked_element == ClickedElement(current_layout, p)
                      pos == PositionOf(current_layout, clicked_element)
                  IN  IF clicked_element = None THEN drag_state
                      ELSE [active |-> TRUE, element |-> clicked_element,
                            start_pos |-> p,
                            offset |-> <<p[1] - pos[1], p[2] - pos[2]>>]
            /\ UNCHANGED creation_state
    /\ mouse' = MouseEvent("button_press_event", inaxes, TRUE, None)
    /\ events_made' = events_made + 1
    /\ UNCHANGED current_layout
    /\ UNCHANGED beside_builder

\* on_canvas_drag(event): the mouse moves to p, the button down or up
OnCanvasDrag(inaxes, p) ==
    /\ events_made < MaxEvents
    /\ IF ~inaxes
       THEN /\ mouse' = MouseEvent("motion_notify_event", inaxes, mouse.down, None)
            /\ UNCHANGED <<current_layout, creation_state>>
       ELSE IF creation_state.active /\ creation_state.start_pos # NoPos
       THEN /\ creation_state' = [creation_state EXCEPT !.current_rect = TRUE]
            /\ mouse' = MouseEvent("motion_notify_event", inaxes, mouse.down, None)
            /\ UNCHANGED current_layout
       ELSE IF ~drag_state.active
       THEN /\ mouse' = MouseEvent("motion_notify_event", inaxes, mouse.down, None)
            /\ UNCHANGED <<current_layout, creation_state>>
       ELSE LET element_name == drag_state.element
                new_x == p[1] - drag_state.offset[1]
                new_y == p[2] - drag_state.offset[2]
            IN  /\ current_layout' =
                      [i \in DOMAIN current_layout |->
                          IF current_layout[i].name = element_name
                          THEN [current_layout[i] EXCEPT
                                    !.position = <<new_x, new_y, @[3], @[4]>>]
                          ELSE current_layout[i]]
                /\ mouse' = MouseEvent("motion_notify_event", inaxes, mouse.down,
                                       IF current_layout' # current_layout
                                       THEN element_name ELSE None)
                /\ UNCHANGED creation_state
    /\ events_made' = events_made + 1
    /\ UNCHANGED drag_state
    /\ UNCHANGED beside_builder

\* the while loop of complete_element_creation: base_name, base_name_1, ...
UniqueName(l, base_name) ==
    LET taken(n) == \E i \in DOMAIN l : l[i].name = n
        free == {c \in 1..(Len(l) + 1) : ~taken(base_name \o "_" \o ToString(c))}
    IN  IF ~taken(base_name) THEN base_name
        ELSE base_name \o "_" \o ToString(SetMin(free))

\* width < 0.05 or height < 0.05, in 1/100
MinElementSize == 5

\* complete_element_creation(end_x, end_y), with the cancel_element_creation
\* it ends in: the layout it leaves
CompleteElementCreation(l, c, p) ==
    LET left == Min2(c.start_pos[1], p[1])
        right == Max2(c.start_pos[1], p[1])
        bottom == Min2(c.start_pos[2], p[2])
        top == Max2(c.start_pos[2], p[2])
        width == right - left
        height == top - bottom
    IN  IF width < MinElementSize \/ height < MinElementSize THEN l
        ELSE Append(l, [name |-> UniqueName(l, c.element_type),
                        position |-> <<left, bottom, width, height>>])

\* on_canvas_release(event): the button goes up at p
OnCanvasRelease(inaxes, p) ==
    /\ events_made < MaxEvents
    /\ mouse.down
    /\ IF ~inaxes
       THEN UNCHANGED <<current_layout, drag_state, creation_state>>
       ELSE IF creation_state.active /\ creation_state.start_pos # NoPos
       THEN /\ current_layout' =
                  CompleteElementCreation(current_layout, creation_state, p)
            /\ creation_state' = NoCreation
            /\ UNCHANGED drag_state
       ELSE /\ drag_state' = NoDrag
            /\ UNCHANGED <<current_layout, creation_state>>
    /\ mouse' = MouseEvent("button_release_event", inaxes, FALSE, None)
    /\ events_made' = events_made + 1
    /\ UNCHANGED beside_builder

\* start_element_creation(element_type): one of the three buttons
StartElementCreation(element_type) ==
    /\ ~mouse.down
    /\ creation_state' = [active |-> TRUE, element_type |-> element_type,
                          start_pos |-> NoPos, current_rect |-> FALSE]
    /\ UNCHANGED <<current_layout, drag_state, mouse, events_made>>
    /\ UNCHANGED beside_builder

\* cancel_element_creation(): the Cancel button or the Escape key
CancelElementCreation ==
    /\ creation_state' = NoCreation
    /\ UNCHANGED <<current_layout, drag_state, mouse, events_made>>
    /\ UNCHANGED beside_builder

BuilderInit ==
    /\ GeneratorIdle
    /\ LabelsIdle
    /\ LayoutConstructed
    /\ TiffConstructed
    /\ BuilderConstructed
    /\ EnhancedConstructed

BuilderNext ==
    \/ \E inaxes \in BOOLEAN, p \in MousePoints : OnCanvasClick(inaxes, p)
    \/ \E inaxes \in BOOLEAN, p \in MousePoints : OnCanvasDrag(inaxes, p)
    \/ \E inaxes \in BOOLEAN, p \in MousePoints : OnCanvasRelease(inaxes, p)
    \/ \E element_type \in ElementTypes : StartElementCreation(element_type)
    \/ CancelElementCreation

BuilderSpec == BuilderInit /\ [][BuilderNext]_allvars

(***************************************************************************)
(* EnhancedMapGeneratorGUI: browse, scan, select, generate                   *)
(***************************************************************************)
\* the attribute selection of the window
AttributeSelection(g, attributes, attr, checkboxes) ==
    [gdf |-> g, available_attributes |-> attributes, selected_attribute |-> attr,
     attribute_vars |-> checkboxes]

\* analyze_attribute_values(): a checkbox for each value, ticked for the
\* common area names
AnalyzeAttributeValues(f, attr) ==
    [i \in DOMAIN ShapeFiles[f].values[attr] |->
        [value |-> ShapeFiles[f].values[attr][i].value,
         var |-> ShapeFiles[f].values[attr][i].common]]

\* scan_shapefile_attributes() on a file gpd.read_file reads: self.gdf, the
\* columns, SUB_DIVISI selected and analyzed if it is a column
ScanAttributes(f, sel) ==
    IF "SUB_DIVISI" \in Range(ShapeFiles[f].columns)
    THEN AttributeSelection(f, ShapeFiles[f].columns, "SUB_DIVISI",
                            AnalyzeAttributeValues(f, "SUB_DIVISI"))
    ELSE AttributeSelection(f, ShapeFiles[f].columns, sel.selected_attribute,
                            sel.attribute_vars)

\* reset_attribute_selection()
ResetAttributeSelection(sel) == AttributeSelection(None, <<>>, "", <<>>)

CurrentSelection ==
    AttributeSelection(scanned_gdf, available_attributes, attribute_field,
                       attribute_vars)

SetSelection(sel) ==
    /\ scanned_gdf' = sel.gdf
    /\ available_attributes' = sel.available_attributes
    /\ attribute_field' = sel.selected_attribute
    /\ attribute_vars' = sel.attribute_vars

\* browse_shapefile(): filename is what the dialog returns, "" if cancelled.
\* It reads the file, scans its attributes and, whatever came of that, calls
\* reset_attribute_selection() last
BrowseShapefile(filename) ==
    /\ IF filename = ""
       THEN /\ gui_call' = GuiCall("browse_shapefile", "", FALSE, FALSE)
            /\ UNCHANGED <<shapefile_path, current_gdf, scanned_gdf,
                           available_attributes, attribute_field, attribute_vars>>
       ELSE /\ shapefile_path' = filename
            /\ IF ShapeFiles[filename].readable
               THEN /\ current_gdf' = filename
                    /\ SetSelection(ResetAttributeSelection(
                                        ScanAttributes(filename, CurrentSelection)))
                    /\ gui_call' = GuiCall("browse_shapefile", "", TRUE, FALSE)
               ELSE /\ current_gdf' = None
                    /\ SetSelection(ResetAttributeSelection(CurrentSelection))
                    /\ gui_call' = GuiCall("browse_shapefile", "Error loading shapefile",
                                           FALSE, FALSE)
    /\ UNCHANGED <<output_path, progress, threads, after_queue, threads_started>>
    /\ UNCHANGED beside_enhanced

\* the Scan Attributes button: scan_shapefile_attributes()
ScanShapefileAttributes ==
    /\ IF shapefile_path = ""
       THEN /\ gui_call' = GuiCall("scan_shapefile_attributes",
                                   "Please select a valid shapefile first.", FALSE, FALSE)
            /\ UNCHANGED <<scanned_gdf, available_attributes, attribute_field,
                           attribute_vars>>
       ELSE IF ~ShapeFiles[shapefile_path].readable
       THEN /\ gui_call' = GuiCall("scan_shapefile_attributes",
                                   "Error scanning shapefile", FALSE, FALSE)
            /\ UNCHANGED <<scanned_gdf, available_attributes, attribute_field,
                           attribute_vars>>
       ELSE /\ SetSelection(ScanAttributes(shapefile_path, CurrentSelection))
            /\ gui_call' = GuiCall("scan_shapefile_attributes", "", TRUE, FALSE)
    /\ UNCHANGED <<shapefile_path, output_path, current_gdf, progress, threads,
                   after_queue, threads_started>>
    /\ UNCHANGED beside_enhanced

\* an attribute is picked in the combobox: on_attribute_selected() makes a
\* ticked checkbox for each value of the column in self.current_gdf
OnAttributeSelected(attr) ==
    /\ attr \in Range(available_attributes)
    /\ attribute_field' = attr
    /\ attribute_vars' =
          IF current_gdf = None THEN attribute_vars
          ELSE IF attr \notin Range(ShapeFiles[current_gdf].columns) THEN attribute_vars
          ELSE [i \in DOMAIN ShapeFiles[current_gdf].values[attr] |->
                   [value |-> ShapeFiles[current_gdf].values[attr][i].value,
                    var |-> TRUE]]
    /\ gui_call' =
          GuiCall("on_attribute_selected",
                  IF current_gdf # None /\ attr \notin Range(ShapeFiles[current_gdf].columns)
                  THEN "Error processing attribute" ELSE "", FALSE, FALSE)
    /\ UNCHANGED <<shapefile_path, output_path, current_gdf, scanned_gdf,
                   available_attributes, progress, threads, after_queue,
                   threads_started>>
    /\ UNCHANGED beside_enhanced

\* deselect_all_values()
DeselectAllValues ==
    /\ attribute_vars' = [i \in DOMAIN attribute_vars |->
                             [attribute_vars[i] EXCEPT !.var = FALSE]]
    /\ gui_call' = GuiCall("deselect_all_values", "", FALSE, FALSE)
    /\ UNCHANGED <<shapefile_path, output_path, current_gdf, scanned_gdf,
                   available_attributes, attribute_field, progress, threads,
                   after_queue, threads_started>>
    /\ UNCHANGED beside_enhanced

\* browse_output(): filename is what the dialog returns
BrowseOutput(filename) ==
    /\ output_path' = IF filename = "" THEN output_path ELSE filename
    /\ gui_call' = GuiCall("browse_output", "", FALSE, FALSE)
    /\ UNCHANGED <<shapefile_path, current_gdf, scanned_gdf, available_attributes,
                   attribute_field, attribute_vars, progress, threads, after_queue,
                   threads_started>>
    /\ UNCHANGED beside_enhanced

\* get_selected_values()
GetSelectedValues ==
    {attribute_vars[i].value : i \in {j \in DOMAIN attribute_vars : attribute_vars[j].var}}

\* the validations of generate_map(), in their order: the message of the
\* first that fails, "" if all pass
GenerateMapError ==
    IF shapefile_path = "" THEN "Please select a valid shapefile."
    ELSE IF output_path = "" THEN "Please specify an output file path."
    ELSE IF scanned_gdf = None THEN "Please scan shapefile attributes first."
    ELSE IF attribute_field = "" THEN "Please select an attribute field."
    ELSE IF GetSelectedValues = {}
    THEN "Please select at least one value from the attribute."
    ELSE ""

\* generate_map(): rejected with a message, or the progress bar starts and a
\* worker thread is started
GenerateMap ==
    /\ gui_call' = GuiCall("generate_map", GenerateMapError, FALSE,
                           gui_call.op = "browse_shapefile" /\ gui_call.readable)
    /\ IF GenerateMapError # ""
       THEN UNCHANGED <<progress, threads, threads_started>>
       ELSE /\ threads_started < MaxThreads
            /\ progress' = TRUE
            /\ threads' = threads \cup {threads_started + 1}
            /\ threads_started' = threads_started + 1
    /\ UNCHANGED <<shapefile_path, output_path, current_gdf, scanned_gdf,
                   available_attributes, attribute_field, attribute_vars, after_queue>>
    /\ UNCHANGED beside_enhanced

\* how _generate_map_thread ends, and the message box it gives to root.after
\* before its finally clause
ThreadOutcomes ==
    [success |-> <<"showinfo">>, failed |-> <<"showerror">>,
     no_match |-> <<"showerror">>, load_failed |-> <<>>, exception |-> <<"showerror">>]

\* _generate_map_thread of thread t runs to its end: finally gives
\* self.progress.stop to root.after
GenerateMapThread(t, outcome) ==
    /\ t \in threads
    /\ threads' = threads \ {t}
    /\ after_queue' = after_queue \o ThreadOutcomes[outcome] \o <<"progress.stop">>
    /\ UNCHANGED <<shapefile_path, output_path, current_gdf, scanned_gdf,
                   available_attributes, attribute_field, attribute_vars, progress,
                   gui_call, threads_started>>
    /\ UNCHANGED beside_enhanced

\* the main loop runs the first callback given to root.after
MainLoop ==
    /\ after_queue # <<>>
    /\ after_queue' = Tail(after_queue)
    /\ progress' = IF Head(after_queue) = "progress.stop" THEN FALSE ELSE progress
    /\ gui_call' = GuiCall("mainloop", Head(after_queue), FALSE, FALSE)
    /\ UNCHANGED <<shapefile_path, output_path, current_gdf, scanned_gdf,
                   available_attributes, attribute_field, attribute_vars, threads,
                   threads_started>>
    /\ UNCHANGED beside_enhanced

EnhancedInit ==
    /\ GeneratorIdle
    /\ LabelsIdle
    /\ LayoutConstructed
    /\ TiffConstructed
    /\ BuilderConstructed
    /\ EnhancedConstructed

EnhancedNext ==
    \/ \E filename \in {""} \cup DOMAIN ShapeFiles : BrowseShapefile(filename)
    \/ ScanShapefileAttributes
    \/ \E attr \in {"SUB_DIVISI", "BLOK"} : OnAttributeSelected(attr)
    \/ DeselectAllValues
    \/ \E filename \in {"", "peta.pdf"} : BrowseOutput(filename)
    \/ GenerateMap
    \/ \E t \in 1..MaxThreads, outcome \in DOMAIN ThreadOutcomes :
          GenerateMapThread(t, outcome)
    \/ MainLoop

EnhancedSpec == EnhancedInit /\ [][EnhancedNext]_allvars


(***************************************************************************)
(* Properties                                                              *)
(***************************************************************************)
LoadOps == {"load_data", "load_data_with_attribute_filter"}
ScaleOp == "_calculate_optimal_scale_from_zoom"
ZoomOp == "_calculate_zoom_bounds_for_optimal_scale"

Catalog == {1000, 2000, 5000, 10000, 15000, 20000, 25000, 30000, 40000, 50000,
            75000, 100000, 150000, 200000, 250000, 500000}

NonEmpty == gdf.loaded /\ Len(gdf.feats) > 0
Extent == TotalBounds(dataset, gdf)
ExtentWidth == Extent.x1 - Extent.x0
ExtentHeight == Extent.y1 - Extent.y0

\* s >= w * 1.3 / 0.22 and s >= h * 1.3 / 0.18
Fits(s, w, h) == 22 * s >= 130 * w /\ 18 * s >= 130 * h
SomeScaleFits == \E s \in Catalog : Fits(s, ExtentWidth, ExtentHeight)

\* C1: for a non-empty collection and any target scale, the bounds returned by
\* _calculate_zoom_bounds_for_optimal_scale contain the collection's total
\* bounds on all four sides.
C1_ViewportContainsExtent ==
    (ret.op = ZoomOp /\ NonEmpty) =>
        /\ ret.bounds.kind = "box"
        /\ ret.bounds.min_x <= Extent.x0 * XDen
        /\ ret.bounds.min_y <= Extent.y0 * YDen
        /\ ret.bounds.max_x >= Extent.x1 * XDen
        /\ ret.bounds.max_y >= Extent.y1 * YDen

\* the extent is too large for the catalog and the window was computed for 500000
C1_Witness ==
    /\ ret.op = ZoomOp /\ NonEmpty
    /\ ~SomeScaleFits
    /\ ret.scale = 500000
    /\ ret.bounds.kind = "box"

\* C2: on every path the value returned by _calculate_optimal_scale_from_zoom
\* is an entry of the professional scale catalog.
C2_ScaleInCatalog == ret.op = ScaleOp => ret.scale \in Catalog

\* the except branch returned
C2_Witness == ret.op = ScaleOp /\ "scale_error" \in console /\ ret.scale \in Catalog

\* C3: when some catalog entry fits, the returned scale is the smallest catalog
\* entry s with s >= W*1.3/0.22 and s >= H*1.3/0.18.
C3_SmallestFittingScale ==
    (ret.op = ScaleOp /\ NonEmpty /\ "scale_error" \notin console /\ SomeScaleFits) =>
        /\ ret.scale \in Catalog
        /\ Fits(ret.scale, ExtentWidth, ExtentHeight)
        /\ \A s \in Catalog :
              s < ret.scale => ~Fits(s, ExtentWidth, ExtentHeight)

\* the height is the binding axis and a scale above the catalog minimum is chosen
C3_Witness ==
    /\ ret.op = ScaleOp /\ NonEmpty /\ "scale_error" \notin console
    /\ SomeScaleFits
    /\ 22 * ExtentHeight > 18 * ExtentWidth
    /\ ret.scale > 1000

AllFeatures == [i \in 1..NumFeatures(dataset) |-> i]

\* the features whose value of the requested attribute is among the
\* type-coerced requested values
Matching ==
    IF FilterActive(last_load.attr, last_load.vals) /\ last_load.attr \in Columns(dataset)
    THEN {i \in 1..NumFeatures(dataset) :
            Feature(dataset, i)[last_load.attr]
                \in ConvertedValues(last_load.attr, last_load.vals.list)}
    ELSE {}

FallbackReported == console \cap {"empty_filter_warning", "filter_error_fallback"} # {}

RECURSIVE IsSubList(_, _)
IsSubList(a, b) ==
    IF a = <<>> THEN TRUE
    ELSE IF b = <<>> THEN FALSE
    ELSE IF Head(a) = Head(b) THEN IsSubList(Tail(a), Tail(b))
    ELSE IsSubList(a, Tail(b))

\* C5: a filtered load with value list L followed by a filtered load, on the
\* same attribute, with a sub-list of L gives every value that has a colour in
\* both mappings the same colour.
C5_ColourStability ==
    [][(/\ last_load.path = "filtered"
        /\ last_load'.path = "filtered"
        /\ ret'.op = "load_data_with_attribute_filter"
        /\ last_load'.attr = last_load.attr
        /\ IsSubList(last_load'.vals.list, last_load.vals.list))
       => \A v \in DOMAIN color_mapping' \cap DOMAIN color_mapping :
             color_mapping'[v] = color_mapping[v]]_vars

\* the row of the first occurrence of v in a column, and the number of
\* distinct non-null values first seen before it
FirstRow(col, v) == SetMin({k \in DOMAIN col : col[k] = v})
NonNull(col) == {v \in Range(col) : v.t # "null"}
Rank(col, v) == Cardinality({u \in NonNull(col) : FirstRow(col, u) < FirstRow(col, v)})

LegendColumn == ColumnValues(dataset, gdf, legend_attribute)

PaletteLaw(palette, n) ==
    /\ DOMAIN color_mapping = NonNull(LegendColumn)
    /\ \A v \in NonNull(LegendColumn) :
          color_mapping[v] = palette[(Rank(LegendColumn, v) % n) + 1]
    /\ colors = color_mapping

\* C6: the i-th distinct non-null value in first-seen order gets
\* palette[i mod N], N = 20 for attribute colouring and N = 15 for SUB_DIVISI
\* colouring; more values than palette entries cycle the palette.
C6_PaletteCycling ==
    (ret.op \in LoadOps /\ ret.bool = "True") =>
        /\ last_load.path = "filtered" =>
              (legend_attribute = last_load.attr /\ PaletteLaw(enhanced_colors, 20))
        /\ (last_load.path # "filtered" /\ "SUB_DIVISI" \in Columns(dataset)) =>
              (legend_attribute = "SUB_DIVISI" /\ PaletteLaw(base_colors, 15))

\* more values than the attribute palette has colours
C6_Witness ==
    /\ ret.op = "load_data_with_attribute_filter" /\ ret.bool = "True"
    /\ last_load.path = "filtered"
    /\ Cardinality(DOMAIN color_mapping) > 20

\* C7: whenever a loader returns True, self.gdf is in EPSG:32748.
C7_WorkingCrs == (ret.op \in LoadOps /\ ret.bool = "True") => gdf.crs = UTM48S

\* C8: _verify_reprojection returns True only if the bounds are within
\* tolerance and the area differs by less than 1%.
C8_VerifiedOnlyIfBoth ==
    (verify.called /\ verify.ret) => (verify.bounds_ok /\ verify.area_ok)

\* C9: a failed verification does not abort the load: the loader returns True,
\* the collections are in place and the failure is printed.
C9_VerificationNeverAborts ==
    (ret.op \in LoadOps /\ verify.called /\ ~verify.ret /\ "load_error" \notin console) =>
        /\ ret.bool = "True"
        /\ gdf.loaded
        /\ gdf_wgs84 = ToCrs(gdf, WGS84)
        /\ console \cap {"verify_failed", "verify_error"} # {}

\* the verification raised inside a load
C9_Witness ==
    /\ ret.op \in LoadOps /\ verify.called /\ ~verify.ret
    /\ "verify_error" \in console
    /\ ret.bool = "True"

C11_ClassByInclusiveThreshold ==
    annotation.made =>
        /\ (AreaM2(row) >= 500000) =>
               (annotation.font_size = 11 /\ annotation.pad_size = 40)
        /\ (AreaM2(row) < 500000 /\ AreaM2(row) >= 100000) =>
               (annotation.font_size = 10 /\ annotation.pad_size = 35)
        /\ (AreaM2(row) < 100000 /\ AreaM2(row) >= 50000) =>
               (annotation.font_size = 9 /\ annotation.pad_size = 30)
        /\ (AreaM2(row) < 50000 /\ AreaM2(row) >= 10000) =>
               (annotation.font_size = 8 /\ annotation.pad_size = 25)
        /\ (AreaM2(row) < 10000) =>
               (annotation.font_size = 7 /\ annotation.pad_size = 20)

PlotOp == "_plot_main_map_fixed"

WindowWidth == ret.bounds.max_x - ret.bounds.min_x
WindowHeight == ret.bounds.max_y - ret.bounds.min_y

WindowContainsExtent ==
    /\ ret.bounds.min_x <= Extent.x0 * XDen
    /\ ret.bounds.min_y <= Extent.y0 * YDen
    /\ ret.bounds.max_x >= Extent.x1 * XDen
    /\ ret.bounds.max_y >= Extent.y1 * YDen

Degenerate == ExtentWidth = 0 \/ ExtentHeight = 0

\* C12: for an extent of zero width, zero height or both, scale selection
\* returns a catalog scale and the bounds computed for it, or for any target
\* scale, are a window (no division by zero, no missing result) of strictly
\* positive width and height that contains the extent.
C12_DegenerateExtentWindow ==
    /\ (ret.op = PlotOp /\ Degenerate) => ret.scale \in Catalog
    /\ (ret.op \in {PlotOp, ZoomOp} /\ NonEmpty /\ Degenerate) =>
           /\ ret.bounds.kind = "box"
           /\ WindowWidth > 0
           /\ WindowHeight > 0
           /\ WindowContainsExtent

\* a collection that is a single point, in metres, was plotted
C12_Witness ==
    /\ ret.op = PlotOp /\ gdf.crs = UTM48S
    /\ Len(gdf.feats) = 1
    /\ ExtentWidth = 0 /\ ExtentHeight = 0
    /\ ret.scale = 1000
    /\ ret.bounds.kind = "box"

\* C13: for an extent of 500 m x 300 m the selected scale is 5000 and the
\* viewport is 1100 m wide and 900 m high, centred on the centre of the extent
\* box, and contains the box.
C13_WorkedScenario ==
    (ret.op = PlotOp /\ "scale_error" \notin console /\ gdf.crs = UTM48S
        /\ ExtentWidth = 500 /\ ExtentHeight = 300) =>
        /\ ret.scale = 5000
        /\ ret.bounds.kind = "box"
        /\ WindowWidth = 1100 * XDen
        /\ WindowHeight = 900 * YDen
        /\ ret.bounds.min_x + ret.bounds.max_x = (Extent.x0 + Extent.x1) * XDen
        /\ ret.bounds.min_y + ret.bounds.max_y = (Extent.y0 + Extent.y1) * YDen
        /\ WindowContainsExtent

\* the 500 m x 300 m collection was plotted at 1:5000
C13_Witness ==
    /\ ret.op = PlotOp /\ "scale_error" \notin console /\ gdf.crs = UTM48S
    /\ ExtentWidth = 500 /\ ExtentHeight = 300
    /\ ret.scale = 5000
    /\ WindowWidth = 1100 * XDen

AttrLoadOp == "load_data_with_attribute_filter"

\* C14: a second load_data_with_attribute_filter directly after a successful
\* first one, on the same generator and file, leaves the same collection, in
\* the same CRS, and the same selected_attribute and selected_values as the
\* first one left.
C14_SecondLoadSameResult ==
    [][(ret.op = AttrLoadOp /\ ret.bool = "True"
          /\ ret'.op = AttrLoadOp /\ ret'.bool = "True") =>
            /\ gdf'.feats = gdf.feats
            /\ gdf'.crs = gdf.crs
            /\ selected_attribute' = selected_attribute
            /\ selected_values' = selected_values]_allvars

\* C18: when load_data returns True for a non-empty selected_subdivisions
\* list (the files are not empty), self.gdf is not empty.
C18_SubdivisionFilterNeverEmpty ==
    (ret.op = "load_data" /\ ret.bool = "True"
        /\ ~selected_subdivisions.none /\ selected_subdivisions.list # <<>>) =>
        Len(gdf.feats) > 0

\* the window that is exactly target_scale * panel: 0.22 * s wide is the
\* numerator 0.22 * s * XDen, 0.18 * s high the numerator 0.18 * s * YDen
WindowAtScale(s) ==
    /\ ret.bounds.kind = "box"
    /\ WindowWidth = 2 * PaperHeightCm * PaperWidthCm * s
    /\ WindowHeight = 2 * PaperWidthCm * PaperHeightCm * s

\* C19: whenever some catalog scale fits the extent, the window the plot step
\* sets for the scale s it selected (and stores in target_scale) is exactly
\* s * 0.22 m wide and s * 0.18 m high; a window of another size occurs only
\* with the scale clamped to 500000.
C19_WindowAtSelectedScale ==
    (ret.op = PlotOp /\ "scale_error" \notin console) =>
        /\ SomeScaleFits => WindowAtScale(ret.scale)
        /\ ~WindowAtScale(ret.scale) => (ret.scale = 500000 /\ ~SomeScaleFits)

\* an extent in metres that needs more than the smallest scale was plotted
C19_Witness ==
    /\ ret.op = PlotOp /\ "scale_error" \notin console /\ gdf.crs = UTM48S
    /\ SomeScaleFits
    /\ ExtentWidth > 1000 /\ ExtentHeight > 0
    /\ ret.scale = 10000
    /\ WindowAtScale(ret.scale)

\* final width and height before the aspect adjustment, in 1/100 m:
\* max(scale * panel, extent * 1.2) per axis
WidthBefore == IF 120 * ExtentWidth > 22 * ret.scale THEN 120 * ExtentWidth ELSE 22 * ret.scale
HeightBefore == IF 120 * ExtentHeight > 18 * ret.scale THEN 120 * ExtentHeight ELSE 18 * ret.scale

\* C20: the aspect adjustment only expands: the final width and height are
\* each at least their value before it, at most one of them is changed, and
\* final width / final height is 22 / 18.
C20_AspectOnlyExpands ==
    (ret.op \in {ZoomOp, PlotOp} /\ NonEmpty) =>
        /\ ret.bounds.kind = "box"
        /\ WindowWidth >= (XDen \div 100) * WidthBefore
        /\ WindowHeight >= (YDen \div 100) * HeightBefore
        /\ \/ WindowWidth = (XDen \div 100) * WidthBefore
           \/ WindowHeight = (YDen \div 100) * HeightBefore
        \* (WindowWidth / XDen) / (WindowHeight / YDen) = 22 / 18, and
        \* YDen / XDen = 22 / 18
        /\ WindowWidth = WindowHeight

\* the height was expanded, and, for another extent, the width
C20_Witness ==
    /\ ret.op = ZoomOp /\ NonEmpty /\ ret.bounds.kind = "box"
    /\ WindowWidth = (XDen \div 100) * WidthBefore
    /\ WindowHeight > (YDen \div 100) * HeightBefore


\* the element names a layout can hold in this model
ElementNames == DOMAIN DefaultLayoutValue \cup UpdateNames

\* a step that is a call of update_element_config
UpdateOp ==
    /\ updates_made' = updates_made + 1
    /\ layout_ret'.op = "update_element_config"

\* C15: after update_element_config(name, updates), get_element_config(name)
\* has every key of updates at the updated value and every other key the
\* element had at its old value; for a name that was not in the layout it
\* equals updates; the configuration of every other element is unchanged.
C15_UpdateTouchesOneElement ==
    [][UpdateOp =>
        LET name == layout_ret'.name
            updates == objects[layout_ret'.updates]
            before(n) == ElementConfig(objects, containers, layout_config, n)
            after(n) == ElementConfig(objects', containers', layout_config', n)
        IN /\ \A k \in DOMAIN updates :
                  k \in DOMAIN after(name) /\ after(name)[k] = updates[k]
           /\ name \in DOMAIN containers[layout_config] =>
                  \A k \in DOMAIN before(name) \ DOMAIN updates :
                      k \in DOMAIN after(name) /\ after(name)[k] = before(name)[k]
           /\ name \notin DOMAIN containers[layout_config] =>
                  DOMAIN after(name) = DOMAIN updates
           /\ \A n \in ElementNames \ {name} :
                  /\ DOMAIN after(n) = DOMAIN before(n)
                  /\ \A k \in DOMAIN before(n) : after(n)[k] = before(n)[k]
    ]_allvars

\* a step that is a call of load_layout_from_file
LoadOp == layout_ret'.op = "load_layout_from_file"

\* C16: a load that returns True on a fresh generator, after a save that
\* returned True, leaves the fresh generator with a layout_config equal to
\* the one the saving generator had at the save: same element names, keys
\* and values; a load that returns False leaves layout_config as it was.
C16_SaveLoadRoundTrip ==
    [][LoadOp =>
        IF layout_ret'.bool = "True"
        THEN layout_ret'.name = "new_generator" =>
             /\ DOMAIN layout_ret'.layout = DOMAIN saved_layout
             /\ \A n \in DOMAIN saved_layout :
                    /\ DOMAIN layout_ret'.layout[n] = DOMAIN saved_layout[n]
                    /\ \A k \in DOMAIN saved_layout[n] :
                           layout_ret'.layout[n][k] = saved_layout[n][k]
        ELSE /\ layout_config' = layout_config
             /\ LayoutValue(objects', containers', layout_config') =
                    LayoutValue(objects, containers, layout_config)
             /\ layout_ret'.name = "new_generator" =>
                    layout_ret'.layout = DefaultLayoutValue
    ]_allvars


\* C17: get_tiff_legend_data called right after the window is constructed
\* returns exactly four entries, in order (#6914cc, Tahap 1),
\* (#5b9ddc, Tahap 2), (#d01975, Tahap 3), (#b1e47a, Tahap 4).
C17_DefaultTiffLegend ==
    (legend_data.called /\ legend_data.after = 0) =>
        legend_data.data =
            <<[color |-> "#6914cc", description |-> "Tahap 1"],
              [color |-> "#5b9ddc", description |-> "Tahap 2"],
              [color |-> "#d01975", description |-> "Tahap 3"],
              [color |-> "#b1e47a", description |-> "Tahap 4"]>>


\* a page was drawn: create_professional_map went past its "No data" return
PageDrawn == figure.made /\ figure.ret # "no_data"

\* C21: when _add_north_arrow_and_scale_fixed runs inside
\* create_professional_map, target_scale is the scale _plot_main_map_fixed
\* selected for the current collection: the scale text equals the scale the
\* viewport was computed with and the 1:25,000 fallback branch is not taken.
C21_ScaleTextIsViewportScale ==
    PageDrawn =>
        /\ target_scale = figure.viewport_scale
        /\ figure.scale_text = figure.viewport_scale
        /\ ~figure.fallback

\* a page whose scale is not the one the fallback branch would have shown
C21_Witness ==
    /\ PageDrawn
    /\ figure.ret = "True"
    /\ figure.scale_text # DefaultScale
    /\ figure.scale_text = figure.viewport_scale

\* C22: on a collection that is not empty _plot_main_map_fixed runs all its
\* steps: after the axes limits it adds the coordinate grid and sets the
\* equal aspect, and it does not end in its error handler.
C22_PlotRunsToTheEnd ==
    (ret.op \in {PlotOp, "create_professional_map"} /\ NonEmpty
        /\ "limits_applied" \in console) =>
        /\ "grid_added" \in console
        /\ "aspect_equal" \in console
        /\ "plot_error" \notin console

\* C28: after create_professional_map every distinct non-null value drawn on
\* the main map has exactly one legend row, however many values there are.
C28_LegendComplete ==
    PageDrawn =>
        \A k \in DOMAIN figure.drawn :
            Cardinality({j \in DOMAIN figure.legend_items :
                            figure.legend_items[j] = figure.drawn[k]}) = 1


\* C23: with no attribute filter set and selected_subdivisions not empty,
\* load_data_with_attribute_filter keeps only the features whose SUB_DIVISI
\* is in selected_subdivisions.
C23_SubdivisionFallbackFilter ==
    (/\ ret.op = AttrLoadOp
     /\ ret.bool = "True"
     /\ ~FilterActive(last_load.attr, last_load.vals)
     /\ ~selected_subdivisions.none
     /\ selected_subdivisions.list # <<>>) =>
        gdf.feats = SelectRows(dataset, AllFeatures, "SUB_DIVISI",
                               Range(selected_subdivisions.list))

\* C29: in load_data_with_attribute_filter an exact reprojection passes
\* _verify_reprojection whatever the filter selects, also when the features
\* selected have a smaller bounding box than the whole file.
C29_ExactReprojectionVerifies ==
    (ret.op = AttrLoadOp /\ verify.called /\ verify.exact) => verify.ret

\* C24: on a generator constructed without a custom layout,
\* reset_to_default_layout leaves layout_config equal to the default layout
\* of construction, whatever update_element_config calls came before, and
\* update_element_config never changes the value of default_layout.
C24_ResetRestoresDefault ==
    /\ layout_ret.op = "reset_to_default_layout" =>
           LayoutValue(objects, containers, layout_config) = DefaultLayoutValue
    /\ layout_ret.op = "update_element_config" =>
           LayoutValue(objects, containers, default_layout) = DefaultLayoutValue

\* C25: every button release ends the drag: after a button_release_event,
\* inside the preview axes or outside, drag_state is inactive with no
\* element, and a motion event with the button up moves no element.
C25_ReleaseEndsDrag ==
    /\ mouse.event = "button_release_event" =>
           ~drag_state.active /\ drag_state.element = None
    /\ (mouse.event = "motion_notify_event" /\ ~mouse.down) => mouse.moved = None

\* C26: after browse_shapefile selected a readable shapefile the scanned
\* state is there, self.gdf loaded and available_attributes the columns of
\* the file, and a generate_map that follows is not turned away with
\* "Please scan shapefile attributes first."
C26_BrowseLeavesScannedState ==
    /\ (gui_call.op = "browse_shapefile" /\ gui_call.readable) =>
           /\ scanned_gdf = shapefile_path
           /\ available_attributes = ShapeFiles[shapefile_path].columns
    /\ (gui_call.op = "generate_map" /\ gui_call.after_browse) =>
           gui_call.message # "Please scan shapefile attributes first."

\* C27: the progress bar is running as long as a worker thread is running.
C27_ProgressWhileWorking ==
    threads # {} => progress

====
